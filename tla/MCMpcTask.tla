----------------------------- MODULE MCMpcTask -----------------------------
(* A small instance of MpcTask: columns of up to two cells.                *)
EXTENDS MpcTask

Cells == { <<Num(-3)>>, <<Num(2), Num(-1)>>, <<Null, Num(3)>>, <<Bad, Null>> }
OneColumn == { [decl |-> [p \in Parties |-> <<t>>], has |-> [p \in Parties |-> {1}],
                data |-> d, head |-> [p \in Parties |-> 2], first |-> [p \in Parties |-> 1],
                db |-> [p \in Parties |-> FALSE]] :
               t \in {"int", "double"}, d \in [Parties -> Cells] }

(* Two columns, told apart by type, some missing, mistyped or not asked    *)
(* for at one party; a table that cannot be read.                          *)
Plain == [p \in Parties |-> <<Num(p), Num(2)>>]
Shapes == { [decl |-> [p \in Parties |-> IF p = 1 THEN a ELSE b],
             has |-> [p \in Parties |-> IF p = 1 THEN h ELSE g],
             data |-> [Plain EXCEPT ![0] = d],
             head |-> [p \in Parties |-> 2], first |-> [p \in Parties |-> 1], db |-> [p \in Parties |-> p = 1 /\ s]] :
            a \in {<<>>, <<"int">>, <<"int", "string">>, <<"int", "double">>},
            b \in {<<"int", "double">>, <<"int", "string">>},
            h \in {{2}, {1, 2}}, g \in {{2}, {1, 2}},
            d \in {<<>>, <<Num(1)>>}, s \in BOOLEAN }

(* The third party, auxiliary in the statistics, has no table.             *)
NoTable == [decl |-> [p \in Parties |-> <<"int", "double">>],
            has |-> [p \in Parties |-> IF p = 2 THEN {} ELSE {1, 2}],
            data |-> Plain, head |-> [p \in Parties |-> 2], first |-> [p \in Parties |-> 1],
            db |-> [p \in Parties |-> FALSE]]

(* A file of two chunks at party 0, which begins with its first column, a  *)
(* later one, or one that was not asked for.                               *)
Chunked == { [decl |-> [p \in Parties |-> <<t, "int">>], has |-> [p \in Parties |-> {1, 2}],
              data |-> [Plain EXCEPT ![0] = <<Num(1), c>>],
              head |-> [p \in Parties |-> 1], first |-> [p \in Parties |-> IF p = 0 THEN f ELSE 0],
              db |-> [p \in Parties |-> FALSE]] :
             t \in {"int", "double"}, c \in {Num(-2), Bad}, f \in {0, 1, 2} }

MCInputs == OneColumn \cup Shapes \cup Chunked \cup {NoTable}
=============================================================================
