---------------------------- MODULE MCRepository ----------------------------
(* Small instances of Repository for TLC, with the queries that its functions
   build: the cfg files give the constants. *)
EXTENDS Repository, SqlBuilder, TLC

(* Versions with events, connections and callers are told apart by nothing but
   their names. *)
Alike == Permutations(Versions \ Plain) \cup Permutations(Conns) \cup Permutations(Clients)

(* Whenever a caller is inside a function of the repository, the query it sends
   binds every marker to its own value and joins its conditions by one WHERE
   and then AND, whichever function it is and whatever it is given
   (pkg/sql/builder.go). *)
QueriesRight == (\E k \in Clients : Running(k)) => AllBound /\ AllJoined
=============================================================================
