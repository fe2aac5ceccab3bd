----------------------------- MODULE MCService -----------------------------
(* Components whose channel has room for one value, as in all components of the    *)
(* library but the SQL Server checker.                                             *)
EXTENDS Service

OneEach    == [c \in Components |-> 1]
WarnOrFail == {"warn", "fail"}
PassOrFail == {"pass", "fail"}

\* Bound: one run leaves out the shutdown of the service and of its components.
ComponentsOpen == ~cancelled /\ \A c \in Components : ~closing[c]

OpenSpec == Init /\ [][Next /\ ComponentsOpen']_vars /\ Progress
=============================================================================
