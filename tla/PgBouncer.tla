------------------------------ MODULE PgBouncer ------------------------------
(***************************************************************************)
(* The prepared-statement trap: connections of sqlx pools to a PgBouncer   *)
(* that moves them between backends, what sqlx believes to be prepared and *)
(* what is, and the program demo_pgbouncer, which probes a cached pool and *)
(* then the pool of connect_pgbouncer with persistent(false).              *)
(*                                                                         *)
(* sqlx and PgBouncer are external; they do what pool.rs and the demo say  *)
(* of them.  A query is one transaction: it is linked to a backend, finds  *)
(* or prepares its statement there, executes it, and lets go.              *)
(***************************************************************************)
EXTENDS Integers, FiniteSets

CONSTANTS
  Backends,    \* server connections of the bouncer
  Cached,      \* connections of the demo's first pool: PgPoolOptions alone
  Fixed,       \* connections of its second pool: connect_pgbouncer
  Web,         \* connections of another program's pool of `connect`
  Crate,       \* connections of a connect_pgbouncer pool the crate uses itself
  None,        \* no backend, or no client
  Queries,     \* texts of queries
  Probe,       \* the text the demo uses for both pools
  N,           \* probes per phase
  MaxQueries,  \* bound: queries of each connection of the others
  MaxCloses    \* bound: how many connections are closed

Others  == Web \cup Crate
Clients == Cached \cup Fixed \cup Others

ASSUME BouncerAssumption ==
  /\ Cached \cap Fixed = {} /\ Others \cap (Cached \cup Fixed) = {}
  /\ Web \cap Crate = {} /\ None \notin Backends \cup Clients
  /\ Probe \in Queries
  /\ N \in Nat \ {0} /\ MaxQueries \in Nat /\ MaxCloses \in Nat

VARIABLES
  mode,      \* the bouncer's pool_mode
  prepared,  \* prepared[b]: the statements of backend b, by their numbers
  link,      \* link[c]: the backend of c
  query,     \* query[c]: what c is executing, with its statement's number
  cache,     \* cache[c]: the numbers c has for query texts it knows
  next,      \* next[c]: the next number of a named statement, sqlx_s_N
  answer,    \* answer[c]: how the last query of c ended
  phase,     \* where main of the demo is
  probes,    \* probes main has made in this phase
  closes     \* connections closed so far

vars == <<mode, prepared, link, query, cache, next, answer, phase, probes, closes>>
demo == <<phase, probes>>

Unnamed == 0

(* statement_cache_capacity(0) of connect_pgbouncer turns the cache off.   *)
CachesStatements(c) == c \in Cached \cup Web

Persistent_ByDefault(c) == TRUE

(* .persistent(false) is said of the demo's second probe and of no query   *)
(* of the crate.                                                           *)
Persistent(c) == c \notin Fixed

(* A statement, and who prepared it: None if it has left since.            *)
Statement == [text : Queries, by : Clients \cup {None}]

NoQuery == [text |-> Probe, number |-> Unnamed, at |-> "idle"]

Empty == [n \in {} |-> n]

Init ==
  /\ mode \in {"session", "transaction"}
  /\ prepared = [b \in Backends |-> Empty]
  /\ link = [c \in Clients |-> None]
  /\ query = [c \in Clients |-> NoQuery]
  /\ cache = [c \in Clients |-> Empty]
  /\ next = [c \in Clients |-> 1]
  /\ answer = [c \in Clients |-> "none"]
  /\ phase = "cached"
  /\ probes = 0
  /\ closes = 0

Free(b) == \A c \in Clients : link[c] # b

At(c, place) == query[c].at = place

-----------------------------------------------------------------------------
(* A query of connection c                                                 *)

(* The bouncer links c to a free backend, unless it has one for good.      *)
Start(c, text) ==
  /\ At(c, "idle")
  /\ \/ link[c] # None /\ UNCHANGED link
     \/ /\ link[c] = None
        /\ \E b \in Backends : Free(b) /\ link' = [link EXCEPT ![c] = b]
  /\ query' = [query EXCEPT ![c] = [text |-> text, number |-> Unnamed, at |-> "linked"]]
  /\ answer' = [answer EXCEPT ![c] = "none"]
  /\ UNCHANGED <<mode, prepared, cache, next, closes>>

(* The end of the transaction: in transaction mode the backend goes back.  *)
End(c, how) ==
  /\ query' = [query EXCEPT ![c] = NoQuery]
  /\ answer' = [answer EXCEPT ![c] = how]
  /\ link' = [link EXCEPT ![c] = IF mode = "session" THEN @ ELSE None]

Known(c, text) == CachesStatements(c) /\ text \in DOMAIN cache[c]

(* sqlx knows the text: it goes straight to the execution.                 *)
Reuse(c) ==
  /\ At(c, "linked") /\ Known(c, query[c].text)
  /\ query' = [query EXCEPT ![c].number = cache[c][query[c].text],
                            ![c].at = "prepared"]
  /\ UNCHANGED <<mode, prepared, link, cache, next, answer, demo, closes>>

NextNumber_Kept(c) == next[c]

NextNumber(c) == IF Persistent(c) THEN next[c] + 1 ELSE next[c]

(* It does not: PREPARE under the next name, or without one.  A name that  *)
(* the backend has already is an error; the unnamed statement is replaced. *)
Prepare(c) ==
  /\ At(c, "linked") /\ ~Known(c, query[c].text)
  /\ LET n == IF Persistent(c) THEN next[c] ELSE Unnamed
         b == link[c]
     IN  /\ next' = [next EXCEPT ![c] = NextNumber(c)]
         /\ \/ /\ n # Unnamed /\ n \in DOMAIN prepared[b]
               /\ End(c, "already exists")
               /\ UNCHANGED <<prepared, cache>>
            \/ /\ n = Unnamed \/ n \notin DOMAIN prepared[b]
               /\ prepared' = [prepared EXCEPT ![b] =
                    [m \in DOMAIN @ \cup {n} |->
                       IF m = n THEN [text |-> query[c].text, by |-> c] ELSE @[m]]]
               /\ cache' = [cache EXCEPT ![c] =
                    IF CachesStatements(c) /\ Persistent(c)
                    THEN [t \in DOMAIN @ \cup {query[c].text} |->
                            IF t = query[c].text THEN n ELSE @[t]]
                    ELSE @]
               /\ query' = [query EXCEPT ![c].number = n, ![c].at = "prepared"]
               /\ UNCHANGED <<link, answer>>
  /\ UNCHANGED <<mode, demo, closes>>

(* The backend executes whatever it has under that number.                 *)
Execute(c) ==
  /\ At(c, "prepared")
  /\ LET here == prepared[link[c]]
         n    == query[c].number
     IN  End(c, IF n \notin DOMAIN here THEN "does not exist"
                ELSE IF here[n].text # query[c].text THEN "another query"
                ELSE IF here[n].by = c THEN "ok" ELSE "borrowed")
  /\ UNCHANGED <<mode, prepared, cache, next, demo, closes>>

(* What c prepared stays, and c is not there any more.                     *)
Left(c, b) == [n \in DOMAIN prepared[b] |->
                 IF prepared[b][n].by = c THEN [prepared[b][n] EXCEPT !.by = None]
                                          ELSE prepared[b][n]]

Reset_Never(c, b) == FALSE

(* In session mode the backend of a client that leaves is reset before     *)
(* anyone else has it (server_reset_query, DISCARD ALL).                   *)
Reset(c, b) == link[c] = b

(* A pool closes an idle connection and opens another in its place: sqlx   *)
(* counts from one again.                                                  *)
Close(c) ==
  /\ At(c, "idle") /\ closes < MaxCloses
  /\ cache' = [cache EXCEPT ![c] = Empty]
  /\ next' = [next EXCEPT ![c] = 1]
  /\ prepared' = [b \in Backends |-> IF Reset(c, b) THEN Empty ELSE Left(c, b)]
  /\ link' = [link EXCEPT ![c] = None]
  /\ closes' = closes + 1
  /\ UNCHANGED <<mode, query, answer, demo>>

-----------------------------------------------------------------------------
(* main of demo_pgbouncer                                                  *)

Errors == {"already exists", "does not exist"}

Pool == IF phase = "cached" THEN Cached ELSE Fixed

Idle(S) == \A c \in S : At(c, "idle") /\ answer[c] = "none"

(* One probe at a time, on any connection of the pool.                     *)
StartProbe(c) ==
  /\ phase \in {"cached", "fixed"} /\ c \in Pool
  /\ Idle(Pool) /\ probes < N
  /\ Start(c, Probe)
  /\ UNCHANGED demo

(* Taking the answer, main leaves the first loop on a statement error: the *)
(* trap is shown.  In the second it returns the error (`?`).               *)
EndProbe(c) ==
  /\ phase \in {"cached", "fixed"} /\ c \in Pool
  /\ At(c, "idle") /\ answer[c] # "none"
  /\ answer' = [answer EXCEPT ![c] = "none"]
  /\ \/ /\ answer[c] \in {"ok", "borrowed"}
        /\ probes' = probes + 1 /\ UNCHANGED phase
     \/ /\ answer[c] = "another query" /\ phase = "cached"
        /\ probes' = probes + 1 /\ UNCHANGED phase
     \/ /\ answer[c] \in Errors /\ phase = "cached"
        /\ phase' = "fixed" /\ probes' = 0
     \/ /\ answer[c] \in Errors \cup {"another query"} /\ phase = "fixed"
        /\ phase' = "error" /\ UNCHANGED probes
  /\ UNCHANGED <<mode, prepared, link, query, cache, next, closes>>

(* A loop has run to its end.                                              *)
EndLoop ==
  /\ probes = N /\ Idle(Pool)
  /\ \/ phase = "cached" /\ phase' = "fixed" /\ probes' = 0
     \/ phase = "fixed" /\ phase' = "passed" /\ UNCHANGED probes
  /\ UNCHANGED <<mode, prepared, link, query, cache, next, answer, closes>>

(* The other programs query what they like.                                *)
StartOther(c, text) ==
  /\ c \in Others /\ next[c] <= MaxQueries
  /\ Start(c, text)
  /\ UNCHANGED demo

-----------------------------------------------------------------------------
Advance(c) == Reuse(c) \/ Prepare(c) \/ Execute(c)

Next ==
  \/ \E c \in Clients : Advance(c)
  \/ \E c \in Clients : Close(c)
  \/ \E c \in Clients : StartProbe(c)
  \/ \E c \in Clients : EndProbe(c)
  \/ EndLoop
  \/ \E c \in Others, text \in Queries : StartOther(c, text)

Spec == Init /\ [][Next]_vars

(* Transactions end, so that a backend is free again and again, and main   *)
(* goes on when it can.                                                    *)
Fairness ==
  /\ \A c \in Clients : WF_vars(Advance(c))
  /\ SF_vars(\E c \in Clients : StartProbe(c))
  /\ WF_vars(\E c \in Clients : EndProbe(c))
  /\ WF_vars(EndLoop)

FairSpec == Spec /\ Fairness

-----------------------------------------------------------------------------
(* Properties                                                              *)

(* The variables have their types, and no backend has two clients.         *)
TypeOK ==
  /\ mode \in {"session", "transaction"}
  /\ \A b \in Backends : \A n \in DOMAIN prepared[b] :
       n \in Nat /\ prepared[b][n] \in Statement
  /\ link \in [Clients -> Backends \cup {None}]
  /\ \A c, d \in Clients : c # d /\ link[c] = link[d] => link[c] = None
  /\ \A c \in Clients : At(c, "idle") \/ link[c] # None
  /\ \A c \in Clients : \A t \in DOMAIN cache[c] : cache[c][t] \in 1 .. next[c] - 1
  /\ answer \in [Clients -> Errors \cup {"none", "ok", "borrowed", "another query"}]
  /\ phase \in {"cached", "fixed", "passed", "error"}
  /\ probes \in 0 .. N

(* "Correct against a direct connection ... a correctness bug behind a     *)
(* transaction-mode bouncer" (pool.rs): a connection that keeps its        *)
(* backend, or whose statements have no names, always executes what it     *)
(* prepared itself, whatever the others leave behind on the backends, and  *)
(* however often pools close connections.                                  *)
OwnStatement ==
  \A c \in Clients :
    mode = "session" \/ ~Persistent(c) => answer[c] \in {"none", "ok"}

(* The two errors have the one root cause the demo names, "the backend     *)
(* moves between transactions": a missing statement is there on another    *)
(* backend, where this connection prepared it, and a name that is taken    *)
(* was left by another client or an earlier connection.                    *)
ErrorsComeOfMoving ==
  [][\A c \in Clients :
       /\ At(c, "prepared") /\ answer'[c] = "does not exist" =>
            \E b \in Backends \ {link[c]} :
              /\ query[c].number \in DOMAIN prepared[b]
              /\ prepared[b][query[c].number] = [text |-> query[c].text, by |-> c]
       /\ At(c, "linked") /\ answer'[c] = "already exists" =>
            prepared[link[c]][next[c]].by # c]_vars

(* The complete fix works: behind a bouncer in transaction mode the demo   *)
(* comes to its end, with every probe of its second pool answered, after   *)
(* its first pool and other programs have left their names everywhere.     *)
DemoPasses == mode = "transaction" => <>(phase = "passed")
=============================================================================
