----------------------------- MODULE MCLogConfig -----------------------------
(* Two loggers, and documents that differ in what the conversion and the   *)
(* listener tell apart: a level, a formatter that parses or not, appenders *)
(* with and without what they need, a name twice, no name, and the root    *)
(* logger, which comes and goes.                                           *)
EXTENDS LogConfig, TLC

CONSTANTS root, db, std, file, p, q

Levels == 0 .. 2
Out(k, f) == [type |-> k, file |-> TRUE, formatter |-> f]
NoFile == [type |-> file, file |-> FALSE, formatter |-> q]
NoType == [type |-> Null, file |-> TRUE, formatter |-> q]
E(n, level, f, appenders) ==
    [name |-> n, level |-> level, formatter |-> f, appenders |-> appenders]

Documents == {
    <<E(db, 1, q, <<NoType, Out(std, Null), NoFile, Out(file, p)>>)>>,
    <<E(db, 0, Bad, <<Out(file, Bad)>>), E(db, 2, q, <<>>)>>,
    <<E(db, 1, q, <<Out(file, Null)>>), E(root, 2, Bad, <<>>)>>,
    <<E(Null, 1, q, <<>>)>> }

Symmetry == Permutations(Writer) \cup Permutations(Setter)
=============================================================================
