--------------------------- MODULE PgBouncerProofs ---------------------------
(***************************************************************************)
(* Theorems about connections behind a PgBouncer, for any number of them,  *)
(* of backends and of query texts.                                         *)
(***************************************************************************)
EXTENDS PgBouncer, TLAPS

(* Among the statements of a backend is the one c prepared for text.       *)
Has(there, c, text, n) == n \in DOMAIN there /\ there[n] = [text |-> text, by |-> c]

(* The rest of the types.                                                  *)
Shape ==
  /\ DOMAIN prepared = Backends
  /\ query \in [Clients -> [text : Queries, number : Nat,
                            at : {"idle", "linked", "prepared"}]]
  /\ DOMAIN cache = Clients /\ \A c \in Clients : DOMAIN cache[c] \subseteq Queries
  /\ next \in [Clients -> Nat \ {0}]

(* A connection has no answer while it executes, and behind a bouncer in   *)
(* transaction mode no backend while it does not.                          *)
LinkOK ==
  \A c \in Clients :
    /\ ~At(c, "idle") => answer[c] = "none"
    /\ mode = "transaction" /\ At(c, "idle") => link[c] = None

(* sqlx never gives a number twice.                                        *)
NumbersOK ==
  \A b \in Backends : \A n \in DOMAIN prepared[b] :
    prepared[b][n].by # None => n < next[prepared[b][n].by]

(* What sqlx believes to be prepared is prepared: somewhere.               *)
CacheOK ==
  \A c \in Clients : \A t \in DOMAIN cache[c] :
    \E b \in Backends : Has(prepared[b], c, t, cache[c][t])

QueryOK ==
  \A c \in Clients : At(c, "prepared") =>
    /\ \E b \in Backends : Has(prepared[b], c, query[c].text, query[c].number)
    /\ query[c].number = Unnamed => Has(prepared[link[c]], c, query[c].text, Unnamed)
    /\ ~Persistent(c) => query[c].number = Unnamed

(* In session mode a backend has the statements of its one client.         *)
SessionOK ==
  mode = "session" =>
    \A b \in Backends : \A n \in DOMAIN prepared[b] :
      prepared[b][n].by \in Clients /\ link[prepared[b][n].by] = b

BouncerInv ==
  /\ TypeOK /\ Shape /\ OwnStatement
  /\ LinkOK /\ NumbersOK /\ CacheOK /\ QueryOK /\ SessionOK

(* main probes on one connection at a time: it never counts beyond N.      *)
Quiet(c) == At(c, "idle") /\ answer[c] = "none"

ProbesOK ==
  /\ phase = "cached" => \A c \in Fixed : Quiet(c)
  /\ phase \in {"cached", "fixed"} =>
       \A c \in Pool : ~Quiet(c) => probes < N /\ \A d \in Pool \ {c} : Quiet(d)

(* A number below the next one is below any later one.                     *)
LEMMA LessThanMore ==
  ASSUME NEW m \in Nat, NEW k \in Nat, k <= m, NEW v
  PROVE  (v \in Nat /\ v < k => v < m) /\ (v \in 1 .. k - 1 => v \in 1 .. m - 1)
OBVIOUS

(* Two facts of arithmetic, for leaves that have much else in view.        *)
LEMMA NotLess == \A k \in Nat : ~(k < k)
OBVIOUS

(* A counter within its bound, one higher.                                 *)
LEMMA OneMore ==
  ASSUME NEW m \in Nat, NEW k \in 0 .. m
  PROVE  0 \in 0 .. m /\ (k < m => k + 1 \in 0 .. m)
OBVIOUS

-----------------------------------------------------------------------------
(* One step of a connection                                                *)

LEMMA StartStep ==
  ASSUME BouncerInv, NEW c \in Clients, NEW text \in Queries, Start(c, text), UNCHANGED demo
  PROVE  BouncerInv'
<1> USE DEF BouncerInv
<1>1. /\ At(c, "idle") /\ query \in [Clients -> [text : Queries, number : Nat,
                                               at : {"idle", "linked", "prepared"}]]
      /\ link \in [Clients -> Backends \cup {None}]
      /\ UNCHANGED <<mode, prepared, cache, next, demo>>
      /\ query' = [query EXCEPT ![c] = [text |-> text, number |-> Unnamed, at |-> "linked"]]
      /\ answer' = [answer EXCEPT ![c] = "none"]
      /\ answer \in [Clients -> Errors \cup {"none", "ok", "borrowed", "another query"}]
  BY DEF Start, TypeOK, Shape
<1>2. PICK b \in Backends : /\ link' = [link EXCEPT ![c] = b]
                            /\ link[c] = b \/ (link[c] = None /\ Free(b))
  <2>1. CASE link[c] # None /\ link' = link
    <3>1. link[c] \in Backends /\ link' = [link EXCEPT ![c] = link[c]]
      BY <1>1, <2>1
    <3> QED BY <3>1
  <2>2. CASE \E b \in Backends : /\ link[c] = None /\ Free(b)
                                /\ link' = [link EXCEPT ![c] = b]
    BY <2>2
  <2> QED BY <2>1, <2>2 DEF Start
<1>3. /\ link' \in [Clients -> Backends \cup {None}] /\ link'[c] = b /\ b # None
      /\ \A d \in Clients : d # c => link'[d] = link[d] /\ link[d] # b
      /\ \A d \in Clients : link[d] # None => link'[d] = link[d]
  BY <1>1, <1>2, BouncerAssumption DEF Free, TypeOK
<1>4. /\ query' \in [Clients -> [text : Queries, number : Nat,
                                 at : {"idle", "linked", "prepared"}]]
      /\ query'[c].at = "linked" /\ \A d \in Clients : d # c => query'[d] = query[d]
      /\ answer' \in [Clients -> Errors \cup {"none", "ok", "borrowed", "another query"}]
      /\ answer'[c] = "none" /\ \A d \in Clients : d # c => answer'[d] = answer[d]
  BY <1>1 DEF Unnamed
<1>5. TypeOK'
  <2>1. \A d, e \in Clients : d # e /\ link'[d] = link'[e] => link'[d] = None
    BY <1>3 DEF TypeOK
  <2>2. \A d \in Clients : query'[d].at = "idle" \/ link'[d] # None
    BY <1>3, <1>4 DEF TypeOK, At
  <2> QED BY <1>1, <1>3, <1>4, <2>1, <2>2 DEF TypeOK, demo, At
<1>6. Shape'
  BY <1>1, <1>4 DEF Shape
<1>7. OwnStatement' /\ LinkOK'
  <2>1. \A d \in Clients : d # c => /\ At(d, "idle")' <=> At(d, "idle")
                                  /\ link'[d] = link[d]
    BY <1>3, <1>4 DEF At
  <2>2. ~At(c, "idle")'
    BY <1>4 DEF At
  <2>3. OwnStatement'
    BY <1>1, <1>4 DEF OwnStatement, Persistent
  <2>4. LinkOK'
    <3>1. answer'[c] = "none" /\ \A d \in Clients : d # c => answer'[d] = answer[d]
      BY <1>4
    <3>2. mode' = mode
      BY <1>1
    <3> QED BY <2>1, <2>2, <3>1, <3>2 DEF LinkOK
  <2> QED BY <2>3, <2>4
<1>8. NumbersOK' /\ CacheOK'
  BY <1>1 DEF NumbersOK, CacheOK, Has
<1>9. QueryOK'
  <2>1. ASSUME NEW d \in Clients, query'[d].at = "prepared"
        PROVE  /\ \E a \in Backends : Has(prepared[a], d, query'[d].text, query'[d].number)
               /\ query'[d].number = Unnamed => Has(prepared[link'[d]], d, query'[d].text, Unnamed)
               /\ ~Persistent(d) => query'[d].number = Unnamed
    <3>1. d # c /\ query'[d] = query[d] /\ link'[d] = link[d]
      BY <1>3, <1>4, <2>1
    <3> QED BY <2>1, <3>1 DEF QueryOK, At
  <2> QED BY <1>1, <2>1 DEF QueryOK, Has, At, Persistent
<1>10. SessionOK'
  <2> SUFFICES ASSUME mode = "session", NEW d \in Backends, NEW n \in DOMAIN prepared[d]
               PROVE  /\ prepared[d][n].by \in Clients
                      /\ link'[prepared[d][n].by] = d
    BY <1>1 DEF SessionOK
  <2>1. prepared[d][n].by \in Clients /\ link[prepared[d][n].by] = d
    BY DEF SessionOK
  <2>2. d # None
    BY BouncerAssumption
  <2> QED BY <1>3, <2>1, <2>2
<1> QED BY <1>5, <1>6, <1>7, <1>8, <1>9, <1>10

(* A statement found in the cache: no one prepares.                        *)
LEMMA ReuseStep ==
  ASSUME BouncerInv, NEW c \in Clients, Reuse(c)
  PROVE  BouncerInv'
<1> USE DEF BouncerInv
<1>1. /\ At(c, "linked") /\ CachesStatements(c) /\ query[c].text \in DOMAIN cache[c]
      /\ query' = [query EXCEPT ![c].number = cache[c][query[c].text],
                                ![c].at = "prepared"]
      /\ UNCHANGED <<mode, prepared, link, cache, next, answer, demo, closes>>
      /\ query \in [Clients -> [text : Queries, number : Nat,
                                at : {"idle", "linked", "prepared"}]]
  BY DEF Reuse, Known, Shape
<1>2. /\ cache[c][query[c].text] \in Nat \ {0}
      /\ query'[c] = [text |-> query[c].text, number |-> cache[c][query[c].text],
                      at |-> "prepared"]
      /\ \A d \in Clients : d # c => query'[d] = query[d]
  <2>1. cache[c][query[c].text] \in 1 .. next[c] - 1 /\ next[c] \in Nat
    BY <1>1 DEF TypeOK, Shape
  <2>2. cache[c][query[c].text] \in Nat \ {0}
    BY <2>1
  <2> QED BY <1>1, <2>2
<1>3. Shape'
  BY <1>1, <1>2 DEF Shape
<1>4. TypeOK'
  BY <1>1, <1>2 DEF TypeOK, demo, At
<1>5. OwnStatement' /\ NumbersOK' /\ CacheOK' /\ SessionOK'
  BY <1>1 DEF OwnStatement, NumbersOK, CacheOK, SessionOK, Has
<1>6. LinkOK'
  BY <1>1, <1>2 DEF LinkOK, At
<1>7. QueryOK'
  <2>1. Persistent(c)
    BY <1>1, BouncerAssumption DEF Persistent, CachesStatements, Others
  <2>2. \E b \in Backends : Has(prepared[b], c, query[c].text, cache[c][query[c].text])
    BY <1>1 DEF CacheOK
  <2>3. ASSUME NEW d \in Clients, query'[d].at = "prepared"
        PROVE  /\ \E a \in Backends : Has(prepared[a], d, query'[d].text, query'[d].number)
               /\ query'[d].number = Unnamed => Has(prepared[link[d]], d, query'[d].text, Unnamed)
               /\ ~Persistent(d) => query'[d].number = Unnamed
    <3>1. CASE d = c
      BY <1>2, <2>1, <2>2, <3>1 DEF Unnamed
    <3>2. CASE d # c
      BY <1>2, <2>3, <3>2 DEF QueryOK, At
    <3> QED BY <3>1, <3>2
  <2>4. UNCHANGED <<mode, prepared, link>>
    BY <1>1
  <2> QED BY <2>3, <2>4 DEF QueryOK, Has, At, Persistent
<1> QED BY <1>3, <1>4, <1>5, <1>6, <1>7

(* A transaction ends, with an answer that OwnStatement allows.            *)
LEMMA EndStep ==
  ASSUME BouncerInv, NEW c \in Clients,
         NEW how \in Errors \cup {"ok", "borrowed", "another query"}, End(c, how),
         mode = "session" \/ ~Persistent(c) => how = "ok",
         next' \in [Clients -> Nat \ {0}], \A d \in Clients : next[d] <= next'[d],
         UNCHANGED <<mode, prepared, cache, demo>>
  PROVE  BouncerInv'
<1> USE DEF BouncerInv
<1>1. /\ query \in [Clients -> [text : Queries, number : Nat,
                                at : {"idle", "linked", "prepared"}]]
      /\ link \in [Clients -> Backends \cup {None}]
      /\ answer \in [Clients -> Errors \cup {"none", "ok", "borrowed", "another query"}]
      /\ mode \in {"session", "transaction"}
      /\ next \in [Clients -> Nat \ {0}]
  BY DEF TypeOK, Shape
<1>2. /\ query' = [query EXCEPT ![c] = NoQuery] /\ answer' = [answer EXCEPT ![c] = how]
      /\ link' = [link EXCEPT ![c] = IF mode = "session" THEN @ ELSE None]
  BY DEF End
<1>3. /\ query' \in [Clients -> [text : Queries, number : Nat,
                                 at : {"idle", "linked", "prepared"}]]
      /\ query'[c].at = "idle" /\ \A d \in Clients : d # c => query'[d] = query[d]
  BY <1>1, <1>2, BouncerAssumption DEF NoQuery, Unnamed
<1>4. /\ answer' \in [Clients -> Errors \cup {"none", "ok", "borrowed", "another query"}]
      /\ answer'[c] = how /\ \A d \in Clients : d # c => answer'[d] = answer[d]
  BY <1>1, <1>2
<1>5. /\ link' \in [Clients -> Backends \cup {None}]
      /\ \A d \in Clients : link'[d] = link[d] \/ link'[d] = None
      /\ \A d \in Clients : d # c => link'[d] = link[d]
      /\ mode = "session" => link' = link
      /\ mode = "transaction" => link'[c] = None
  BY <1>1, <1>2
<1>6. TypeOK'
  <2>1. \A d, e \in Clients : d # e /\ link'[d] = link'[e] => link'[d] = None
    BY <1>5 DEF TypeOK
  <2>2. \A d \in Clients : query'[d].at = "idle" \/ link'[d] # None
    BY <1>3, <1>5 DEF TypeOK, At
  <2>3. ASSUME NEW d \in Clients, NEW t \in DOMAIN cache[d]
        PROVE  cache[d][t] \in 1 .. next'[d] - 1
    <3>1. cache[d][t] \in 1 .. next[d] - 1
      BY DEF TypeOK
    <3>2. next[d] \in Nat /\ next'[d] \in Nat /\ next[d] <= next'[d]
      BY <1>1
    <3> DEFINE v == cache[d][t]
               k == next[d]
               m == next'[d]
    <3>3. v \in 1 .. k - 1 /\ k \in Nat /\ m \in Nat /\ k <= m
      BY <3>1, <3>2
    <3> HIDE DEF BouncerInv, v, k, m
    <3>4. v \in 1 .. m - 1
      BY <3>3, LessThanMore
    <3> QED BY <3>4 DEF v, m
  <2> QED BY <1>1, <1>4, <1>5, <2>1, <2>2, <2>3 DEF TypeOK, demo, At
<1>7. Shape'
  BY <1>3 DEF Shape
<1>8. OwnStatement'
  BY <1>4 DEF OwnStatement, Persistent
<1>9. LinkOK'
  <2>1. \A d \in Clients : d # c => (At(d, "idle")' <=> At(d, "idle")) /\ link'[d] = link[d]
    BY <1>3, <1>5 DEF At
  <2>2. At(c, "idle")' /\ (mode = "transaction" => link'[c] = None)
    BY <1>3, <1>5 DEF At
  <2> QED BY <1>4, <2>1, <2>2 DEF LinkOK
<1>10. NumbersOK'
  <2> SUFFICES ASSUME NEW b \in Backends, NEW n \in DOMAIN prepared[b],
                      prepared[b][n].by # None
               PROVE  n < next'[prepared[b][n].by]
    BY DEF NumbersOK
  <2>1. n \in Nat /\ prepared[b][n] \in Statement
    BY DEF TypeOK
  <2>2. prepared[b][n].by \in Clients
    BY <2>1 DEF Statement
  <2>3. n < next[prepared[b][n].by]
    BY DEF NumbersOK
  <2> DEFINE k == next[prepared[b][n].by]
             m == next'[prepared[b][n].by]
  <2>4. n \in Nat /\ k \in Nat /\ m \in Nat /\ n < k /\ k <= m
    BY <1>1, <2>1, <2>2, <2>3
  <2> HIDE DEF BouncerInv, k, m
  <2>5. n < m
    BY <2>4, LessThanMore
  <2> QED BY <2>5 DEF m
<1>11. CacheOK'
  BY DEF CacheOK, Has
<1>12. QueryOK'
  <2>1. ASSUME NEW d \in Clients, query'[d].at = "prepared"
        PROVE  /\ \E a \in Backends : Has(prepared[a], d, query'[d].text, query'[d].number)
               /\ query'[d].number = Unnamed => Has(prepared[link'[d]], d, query'[d].text, Unnamed)
               /\ ~Persistent(d) => query'[d].number = Unnamed
    <3>1. d # c /\ query'[d] = query[d] /\ link'[d] = link[d]
      BY <1>3, <1>5, <2>1
    <3> QED BY <2>1, <3>1 DEF QueryOK, At
  <2> QED BY <1>1, <2>1 DEF QueryOK, Has, At, Persistent
<1>13. SessionOK'
  BY <1>5 DEF SessionOK
<1> QED BY <1>6, <1>7, <1>8, <1>9, <1>10, <1>11, <1>12, <1>13

(* A query executes what the backend has under the name.                   *)
LEMMA ExecuteStep ==
  ASSUME BouncerInv, NEW c \in Clients, Execute(c)
  PROVE  BouncerInv'
<1> DEFINE b == link[c]
           n == query[c].number
           how == IF n \notin DOMAIN prepared[b] THEN "does not exist"
                  ELSE IF prepared[b][n].text # query[c].text THEN "another query"
                  ELSE IF prepared[b][n].by = c THEN "ok" ELSE "borrowed"
<1>1. /\ At(c, "prepared") /\ End(c, how)
      /\ UNCHANGED <<mode, prepared, cache, next, demo>>
  BY DEF Execute
<1>2. how \in Errors \cup {"ok", "borrowed", "another query"}
  BY DEF Errors
<1>3. ASSUME mode = "session" \/ ~Persistent(c)
      PROVE  Has(prepared[b], c, query[c].text, n)
  <2>1. CASE ~Persistent(c)
    BY <1>1, <2>1 DEF BouncerInv, QueryOK
  <2>2. CASE mode = "session"
    <3>1. PICK a \in Backends : Has(prepared[a], c, query[c].text, n)
      BY <1>1 DEF BouncerInv, QueryOK
    <3>2. link[c] = a
      BY <2>2, <3>1 DEF BouncerInv, SessionOK, Has
    <3> QED BY <3>1, <3>2
  <2> QED BY <1>3, <2>1, <2>2
<1>4. mode = "session" \/ ~Persistent(c) => how = "ok"
  BY <1>3 DEF Has
<1>5. next' \in [Clients -> Nat \ {0}] /\ \A d \in Clients : next[d] <= next'[d]
  <2>1. next \in [Clients -> Nat \ {0}]
    BY DEF BouncerInv, Shape
  <2>2. next' = next
    BY <1>1
  <2>3. \A d \in Clients : next[d] \in Nat \ {0} /\ next[d] <= next[d]
    BY <2>1
  <2> QED BY <2>1, <2>2, <2>3
<1> HIDE DEF how
<1>6. End(c, how) /\ UNCHANGED <<mode, prepared, cache, demo>>
  BY <1>1
<1> QED BY <1>2, <1>4, <1>5, <1>6, EndStep

(* The number that Prepare gives, and the next one.                        *)
LEMMA NextNumberOK ==
  ASSUME BouncerInv, NEW c \in Clients, next' = [next EXCEPT ![c] = NextNumber(c)]
  PROVE  /\ next' \in [Clients -> Nat \ {0}]
         /\ \A d \in Clients : next[d] <= next'[d]
         /\ Persistent(c) => next'[c] = next[c] + 1
<1>1. next \in [Clients -> Nat \ {0}]
  BY DEF BouncerInv, Shape
<1>2. NextNumber(c) \in Nat \ {0} /\ next[c] <= NextNumber(c)
  <2>1. next[c] \in Nat \ {0}
    BY <1>1
  <2>2. CASE Persistent(c)
    BY <2>1, <2>2 DEF NextNumber
  <2>3. CASE ~Persistent(c)
    BY <2>1, <2>3 DEF NextNumber
  <2> QED BY <2>2, <2>3
<1>3. next' \in [Clients -> Nat \ {0}] /\ next'[c] = NextNumber(c)
  BY <1>1, <1>2
<1>4. ASSUME NEW d \in Clients PROVE next[d] <= next'[d]
  <2>1. CASE d = c
    BY <1>2, <1>3, <2>1
  <2>2. CASE d # c
    <3>1. next'[d] = next[d] /\ next[d] \in Nat
      BY <1>1, <2>2
    <3> QED BY <3>1
  <2> QED BY <2>1, <2>2
<1>5. Persistent(c) => next'[c] = next[c] + 1
  BY <1>3 DEF NextNumber
<1> QED BY <1>3, <1>4, <1>5

(* A name that is taken on the backend: the query fails.                   *)
LEMMA PrepareFails ==
  ASSUME BouncerInv, NEW c \in Clients, At(c, "linked"), Persistent(c),
         next[c] \in DOMAIN prepared[link[c]], End(c, "already exists"),
         next' = [next EXCEPT ![c] = NextNumber(c)],
         UNCHANGED <<mode, prepared, cache, demo>>
  PROVE  BouncerInv' /\ prepared[link[c]][next[c]].by # c
<1>1. link[c] \in Backends /\ link[c] # None
  BY DEF BouncerInv, TypeOK, At
<1>2. prepared[link[c]][next[c]].by # c
  <2>1. next[c] \in Nat
    BY DEF BouncerInv, Shape
  <2>2. prepared[link[c]][next[c]].by = c => next[c] < next[c]
    BY <1>1, BouncerAssumption DEF BouncerInv, NumbersOK
  <2> QED BY <2>1, <2>2, NotLess
<1>3. mode # "session"
  <2> SUFFICES ASSUME mode = "session" PROVE FALSE
    OBVIOUS
  <2> DEFINE d == prepared[link[c]][next[c]].by
  <2>1. d \in Clients /\ link[d] = link[c]
    BY <1>1 DEF BouncerInv, SessionOK
  <2> QED BY <1>1, <1>2, <2>1 DEF BouncerInv, TypeOK
<1>4. "already exists" \in Errors \cup {"ok", "borrowed", "another query"}
  BY DEF Errors
<1>5. BouncerInv'
  BY <1>3, <1>4, NextNumberOK, EndStep
<1> QED BY <1>2, <1>5

(* A name that is free, or the unnamed one, stands for the new text.       *)
LEMMA PrepareSucceeds ==
  ASSUME BouncerInv, NEW c \in Clients, At(c, "linked"), NEW n,
         n = IF Persistent(c) THEN next[c] ELSE Unnamed,
         n = Unnamed \/ n \notin DOMAIN prepared[link[c]],
         next' = [next EXCEPT ![c] = NextNumber(c)],
         prepared' = [prepared EXCEPT ![link[c]] =
                        [m \in DOMAIN @ \cup {n} |->
                           IF m = n THEN [text |-> query[c].text, by |-> c] ELSE @[m]]],
         cache' = [cache EXCEPT ![c] =
                     IF CachesStatements(c) /\ Persistent(c)
                     THEN [t \in DOMAIN @ \cup {query[c].text} |->
                             IF t = query[c].text THEN n ELSE @[t]]
                     ELSE @],
         query' = [query EXCEPT ![c].number = n, ![c].at = "prepared"],
         UNCHANGED <<mode, link, answer, demo>>
  PROVE  BouncerInv'
<1> DEFINE b == link[c]
           text == query[c].text
<1>1. /\ next \in [Clients -> Nat \ {0}] /\ DOMAIN prepared = Backends
      /\ query \in [Clients -> [text : Queries, number : Nat,
                                at : {"idle", "linked", "prepared"}]]
      /\ DOMAIN cache = Clients
  BY DEF BouncerInv, Shape
<1>2. b \in Backends /\ b # None /\ text \in Queries
  BY <1>1 DEF BouncerInv, TypeOK, At
<1>3. /\ n \in Nat /\ n < next'[c]
      /\ Persistent(c) => n \in 1 .. next'[c] - 1
      /\ ~Persistent(c) <=> n = Unnamed
  <2>1. next[c] \in Nat \ {0} /\ next'[c] \in Nat \ {0}
    BY <1>1, NextNumberOK
  <2>2. CASE Persistent(c)
    <3>1. n = next[c] /\ next'[c] = n + 1
      BY <2>2, NextNumberOK
    <3> QED BY <2>1, <2>2, <3>1 DEF Unnamed
  <2>3. CASE ~Persistent(c)
    BY <2>1, <2>3 DEF Unnamed
  <2> QED BY <2>2, <2>3
<1>4. /\ next' \in [Clients -> Nat \ {0}]
      /\ \A d \in Clients : next[d] <= next'[d]
  BY NextNumberOK
<1>5. /\ query' \in [Clients -> [text : Queries, number : Nat,
                                 at : {"idle", "linked", "prepared"}]]
      /\ query'[c] = [text |-> text, number |-> n, at |-> "prepared"]
      /\ \A d \in Clients : d # c => query'[d] = query[d]
  BY <1>1, <1>3
<1>6. /\ DOMAIN prepared' = Backends
      /\ \A a \in Backends : a # b => prepared'[a] = prepared[a]
      /\ DOMAIN prepared'[b] = DOMAIN prepared[b] \cup {n}
      /\ prepared'[b][n] = [text |-> text, by |-> c]
      /\ \A m \in DOMAIN prepared[b] : m # n => prepared'[b][m] = prepared[b][m]
  BY <1>1, <1>2
<1>7. /\ DOMAIN cache' = Clients
      /\ \A d \in Clients : d # c => cache'[d] = cache[d]
      /\ \A t \in DOMAIN cache'[c] :
           \/ t \in DOMAIN cache[c] /\ cache'[c][t] = cache[c][t]
           \/ Persistent(c) /\ t = text /\ cache'[c][t] = n
  BY <1>1
<1> HIDE DEF b, text
<1>8. ASSUME NEW a \in Backends, NEW d \in Clients, NEW t, NEW m, Has(prepared[a], d, t, m),
             a # b \/ m # Unnamed
      PROVE  Has(prepared'[a], d, t, m)
  BY <1>6, <1>8 DEF Has, b
<1>9. Has(prepared'[b], c, text, n)
  BY <1>6 DEF Has
<1> USE DEF BouncerInv
<1>10. Shape'
  <2>1. ASSUME NEW d \in Clients PROVE DOMAIN cache'[d] \subseteq Queries
    <3>1. DOMAIN cache[d] \subseteq Queries
      BY DEF Shape
    <3>2. CASE d = c
      BY <1>2, <1>7, <3>1, <3>2
    <3>3. CASE d # c
      BY <1>7, <3>1, <3>3
    <3> QED BY <3>2, <3>3
  <2> QED BY <1>4, <1>5, <1>6, <1>7, <2>1 DEF Shape
<1>11. TypeOK'
  <2>1. ASSUME NEW a \in Backends, NEW m \in DOMAIN prepared'[a]
        PROVE  m \in Nat /\ prepared'[a][m] \in Statement
    <3>1. CASE a # b \/ m # n
      BY <1>6, <3>1, <2>1 DEF TypeOK
    <3>2. CASE a = b /\ m = n
      BY <1>2, <1>3, <1>6, <3>2 DEF Statement
    <3> QED BY <3>1, <3>2
  <2>2. \A d \in Clients : At(d, "idle")' \/ link'[d] # None
    BY <1>5 DEF TypeOK, At
  <2>3. ASSUME NEW d \in Clients, NEW t \in DOMAIN cache'[d]
        PROVE  cache'[d][t] \in 1 .. next'[d] - 1
    <3>1. CASE t \in DOMAIN cache[d] /\ cache'[d][t] = cache[d][t]
      <4>1. cache[d][t] \in 1 .. next[d] - 1
        BY <3>1 DEF TypeOK
      <4>2. next[d] \in Nat /\ next'[d] \in Nat /\ next[d] <= next'[d]
        BY <1>1, <1>4
      <4> QED BY <3>1, <4>1, <4>2, LessThanMore
    <3>2. CASE d = c /\ Persistent(c) /\ cache'[d][t] = n
      BY <1>3, <3>2
    <3> QED BY <1>7, <2>3, <3>1, <3>2
  <2> QED BY <2>1, <2>2, <2>3 DEF TypeOK, demo
<1>12. OwnStatement' /\ LinkOK'
  <2>1. OwnStatement'
    BY DEF OwnStatement, Persistent
  <2>2. ASSUME NEW d \in Clients, At(d, "idle")' PROVE At(d, "idle")
    BY <1>5, <2>2 DEF At
  <2>3. answer[c] = "none"
    BY DEF LinkOK, At
  <2>4. ASSUME NEW d \in Clients, ~At(d, "idle")' PROVE answer[d] = "none"
    BY <1>5, <2>3, <2>4 DEF At, LinkOK
  <2>5. LinkOK'
    BY <2>2, <2>4 DEF LinkOK
  <2> QED BY <2>1, <2>5
<1>13. NumbersOK'
  <2> SUFFICES ASSUME NEW a \in Backends, NEW m \in DOMAIN prepared'[a],
                      prepared'[a][m].by # None
               PROVE  m < next'[prepared'[a][m].by]
    BY DEF NumbersOK
  <2>1. CASE a # b \/ m # n
    <3> DEFINE d == prepared[a][m].by
    <3>1. m \in DOMAIN prepared[a] /\ prepared'[a][m] = prepared[a][m]
      BY <1>6, <2>1
    <3>2. m \in Nat /\ d \in Clients /\ m < next[d]
      BY <3>1 DEF TypeOK, Statement, NumbersOK
    <3>3. next[d] \in Nat /\ next'[d] \in Nat /\ next[d] <= next'[d]
      BY <1>1, <1>4, <3>2
    <3> QED BY <3>1, <3>2, <3>3, LessThanMore
  <2>2. CASE a = b /\ m = n
    BY <1>3, <1>6, <2>2
  <2> QED BY <2>1, <2>2
<1>14. CacheOK'
  <2>1. ASSUME NEW d \in Clients, NEW t \in DOMAIN cache'[d]
        PROVE  \E a \in Backends : Has(prepared'[a], d, t, cache'[d][t])
    <3>1. CASE t \in DOMAIN cache[d] /\ cache'[d][t] = cache[d][t]
      <4>1. PICK a \in Backends : Has(prepared[a], d, t, cache[d][t])
        BY <3>1 DEF CacheOK
      <4>2. cache[d][t] # Unnamed
        <5>1. cache[d][t] \in 1 .. next[d] - 1
          BY <3>1 DEF TypeOK
        <5>2. \A k, v : v \in 1 .. k => v # 0
          OBVIOUS
        <5> QED BY <5>1, <5>2 DEF Unnamed
      <4> QED BY <1>8, <3>1, <4>1, <4>2
    <3>2. CASE d = c /\ t = text /\ cache'[d][t] = n
      BY <1>2, <1>9, <3>2
    <3>3. CASE d # c
      <4>1. t \in DOMAIN cache[d] /\ cache'[d][t] = cache[d][t]
        BY <1>7, <3>3
      <4> QED BY <3>1, <4>1
    <3>4. CASE d = c
      <4>1. \/ t \in DOMAIN cache[d] /\ cache'[d][t] = cache[d][t]
            \/ t = text /\ cache'[d][t] = n
        BY <1>7, <3>4
      <4> QED BY <3>1, <3>2, <3>4, <4>1
    <3> QED BY <3>3, <3>4
  <2> QED BY <2>1 DEF CacheOK, Has
<1>15. QueryOK'
  <2>1. ASSUME NEW d \in Clients, query'[d].at = "prepared"
        PROVE  /\ \E a \in Backends : Has(prepared'[a], d, query'[d].text, query'[d].number)
               /\ query'[d].number = Unnamed => Has(prepared'[link[d]], d, query'[d].text, Unnamed)
               /\ ~Persistent(d) => query'[d].number = Unnamed
    <3>1. CASE d = c
      <4> HIDE DEF BouncerInv
      <4>1. query'[d].text = text /\ query'[d].number = n
        BY <1>5, <3>1
      <4>2. b = link[d]
        BY <3>1 DEF b
      <4>3. ~Persistent(d) => n = Unnamed
        BY <1>3, <3>1
      <4> QED BY <1>2, <1>9, <3>1, <4>1, <4>2, <4>3
    <3>2. CASE d # c
      <4>1. query'[d] = query[d] /\ At(d, "prepared")
        BY <1>5, <2>1, <3>2 DEF At
      <4>2. link[d] \in Backends /\ link[d] # b
        BY <1>2, <3>2, <4>1 DEF TypeOK, At, b
      <4>3. CASE query[d].number = Unnamed
        <5>1. Has(prepared'[link[d]], d, query[d].text, Unnamed)
          <6>1. Has(prepared[link[d]], d, query[d].text, Unnamed)
            BY <4>1, <4>3 DEF QueryOK
          <6> QED BY <1>8, <4>2, <6>1
        <5> QED BY <4>1, <4>2, <4>3, <5>1
      <4>4. CASE query[d].number # Unnamed
        <5>1. PICK a \in Backends : Has(prepared[a], d, query[d].text, query[d].number)
          BY <4>1 DEF QueryOK
        <5>2. Has(prepared'[a], d, query[d].text, query[d].number)
          BY <1>8, <4>4, <5>1
        <5>3. ~Persistent(d) => query[d].number = Unnamed
          BY <4>1 DEF QueryOK
        <5> QED BY <4>1, <4>4, <5>2, <5>3
      <4> QED BY <4>3, <4>4
    <3> QED BY <3>1, <3>2
  <2> HIDE DEF BouncerInv
  <2> QED BY <2>1 DEF QueryOK, At, Persistent
<1>16. SessionOK'
  <2> SUFFICES ASSUME mode = "session", NEW a \in Backends, NEW m \in DOMAIN prepared'[a]
               PROVE  prepared'[a][m].by \in Clients /\ link[prepared'[a][m].by] = a
    BY DEF SessionOK
  <2>1. CASE a # b \/ m # n
    <3>1. m \in DOMAIN prepared[a] /\ prepared'[a][m] = prepared[a][m]
      BY <1>6, <2>1
    <3> QED BY <3>1 DEF SessionOK
  <2>2. CASE a = b /\ m = n
    BY <1>6, <2>2 DEF b
  <2> QED BY <2>1, <2>2
<1> QED BY <1>10, <1>11, <1>12, <1>13, <1>14, <1>15, <1>16

(* A query without a cached statement prepares one.                        *)
LEMMA PrepareStep ==
  ASSUME BouncerInv, NEW c \in Clients, Prepare(c)
  PROVE  /\ BouncerInv'
         /\ answer'[c] = "already exists" => prepared[link[c]][next[c]].by # c
<1> DEFINE n == IF Persistent(c) THEN next[c] ELSE Unnamed
<1>1. /\ At(c, "linked") /\ next' = [next EXCEPT ![c] = NextNumber(c)]
      /\ UNCHANGED <<mode, demo>>
  BY DEF Prepare
<1>2. CASE /\ n # Unnamed /\ n \in DOMAIN prepared[link[c]]
           /\ End(c, "already exists") /\ UNCHANGED <<prepared, cache>>
  <2>1. Persistent(c) /\ n = next[c]
    BY <1>2
  <2> QED BY <1>1, <1>2, <2>1, PrepareFails
<1>3. CASE /\ n = Unnamed \/ n \notin DOMAIN prepared[link[c]]
           /\ prepared' = [prepared EXCEPT ![link[c]] =
                  [m \in DOMAIN @ \cup {n} |->
                     IF m = n THEN [text |-> query[c].text, by |-> c] ELSE @[m]]]
           /\ cache' = [cache EXCEPT ![c] =
                  IF CachesStatements(c) /\ Persistent(c)
                  THEN [t \in DOMAIN @ \cup {query[c].text} |->
                          IF t = query[c].text THEN n ELSE @[t]]
                  ELSE @]
           /\ query' = [query EXCEPT ![c].number = n, ![c].at = "prepared"]
           /\ UNCHANGED <<link, answer>>
  <2>1. answer'[c] = "none"
    BY <1>1, <1>3 DEF BouncerInv, LinkOK, At
  <2>2. n = IF Persistent(c) THEN next[c] ELSE Unnamed
    OBVIOUS
  <2> HIDE DEF n
  <2>3. UNCHANGED <<mode, link, answer, demo>>
    BY <1>1, <1>3
  <2>4. BouncerInv'
    BY <1>1, <1>3, <2>2, <2>3, PrepareSucceeds
  <2> QED BY <2>1, <2>4
<1>4. \/ /\ n # Unnamed /\ n \in DOMAIN prepared[link[c]]
         /\ End(c, "already exists") /\ UNCHANGED <<prepared, cache>>
      \/ /\ n = Unnamed \/ n \notin DOMAIN prepared[link[c]]
         /\ prepared' = [prepared EXCEPT ![link[c]] =
                [m \in DOMAIN @ \cup {n} |->
                   IF m = n THEN [text |-> query[c].text, by |-> c] ELSE @[m]]]
         /\ cache' = [cache EXCEPT ![c] =
                IF CachesStatements(c) /\ Persistent(c)
                THEN [t \in DOMAIN @ \cup {query[c].text} |->
                        IF t = query[c].text THEN n ELSE @[t]]
                ELSE @]
         /\ query' = [query EXCEPT ![c].number = n, ![c].at = "prepared"]
         /\ UNCHANGED <<link, answer>>
  BY Zenon DEF Prepare
<1> HIDE DEF n
<1> QED BY <1>2, <1>3, <1>4

(* What other connections have prepared survives that c is closed: a       *)
(* backend is reset only when its one client leaves it.                    *)
LEMMA CloseStep ==
  ASSUME BouncerInv, NEW c \in Clients, Close(c)
  PROVE  BouncerInv'
<1> USE DEF BouncerInv
<1>1. /\ At(c, "idle") /\ cache' = [cache EXCEPT ![c] = Empty]
      /\ next' = [next EXCEPT ![c] = 1] /\ link' = [link EXCEPT ![c] = None]
      /\ prepared' = [b \in Backends |-> IF link[c] = b THEN Empty ELSE Left(c, b)]
      /\ UNCHANGED <<mode, query, answer, demo>>
      /\ mode \in {"session", "transaction"}
  BY DEF Close, Reset, TypeOK
<1>2. /\ next \in [Clients -> Nat \ {0}] /\ DOMAIN prepared = Backends
      /\ DOMAIN cache = Clients /\ link \in [Clients -> Backends \cup {None}]
  BY DEF TypeOK, Shape
<1>3. /\ next' \in [Clients -> Nat \ {0}] /\ \A d \in Clients : d # c => next'[d] = next[d]
      /\ DOMAIN cache' = Clients /\ DOMAIN cache'[c] = {}
      /\ \A d \in Clients : d # c => cache'[d] = cache[d]
      /\ link' \in [Clients -> Backends \cup {None}]
      /\ link'[c] = None /\ \A d \in Clients : d # c => link'[d] = link[d]
  BY <1>1, <1>2 DEF Empty
<1>4. ASSUME NEW b \in Backends, NEW n \in DOMAIN prepared'[b]
      PROVE  /\ link[c] # b /\ n \in DOMAIN prepared[b]
             /\ n \in Nat /\ prepared[b][n] \in Statement
             /\ prepared[b][n].by = c =>
                  prepared'[b][n] = [text |-> prepared[b][n].text, by |-> None]
             /\ prepared[b][n].by # c => prepared'[b][n] = prepared[b][n]
  <2>1. prepared'[b] = IF link[c] = b THEN Empty ELSE Left(c, b)
    BY <1>1
  <2>2. link[c] # b /\ prepared'[b] = Left(c, b)
    BY <1>4, <2>1 DEF Empty
  <2>3. n \in DOMAIN prepared[b] /\ n \in Nat /\ prepared[b][n] \in Statement
    BY <1>4, <2>2 DEF Left, TypeOK
  <2> QED BY <2>2, <2>3 DEF Left, Statement
<1>5. ASSUME NEW a \in Backends, NEW d \in Clients, d # c, NEW t, NEW m,
             Has(prepared[a], d, t, m)
      PROVE  Has(prepared'[a], d, t, m)
  <2>1. link[c] # a
    <3>1. CASE mode = "transaction"
      <4>1. link[c] = None
        BY <1>1, <3>1 DEF LinkOK
      <4> QED BY <4>1, BouncerAssumption
    <3>2. CASE mode = "session"
      <4>1. link[d] = a
        BY <1>5, <3>2 DEF SessionOK, Has
      <4> QED BY <1>5, <4>1, BouncerAssumption DEF TypeOK
    <3> QED BY <1>1, <3>1, <3>2
  <2>2. prepared'[a] = Left(c, a)
    BY <1>1, <2>1
  <2> QED BY <1>5, <2>2 DEF Has, Left
<1>6. Shape'
  <2>1. ASSUME NEW d \in Clients PROVE DOMAIN cache'[d] \subseteq Queries
    BY <1>3 DEF Shape
  <2> QED BY <1>1, <1>2, <1>3, <2>1 DEF Shape
<1>7. TypeOK'
  <2>1. \A b \in Backends : \A n \in DOMAIN prepared'[b] :
          n \in Nat /\ prepared'[b][n] \in Statement
    <3> SUFFICES ASSUME NEW b \in Backends, NEW n \in DOMAIN prepared'[b]
                 PROVE  n \in Nat /\ prepared'[b][n] \in Statement
      OBVIOUS
    <3>1. n \in Nat /\ prepared[b][n] \in Statement
      BY <1>4
    <3>2. CASE prepared[b][n].by = c
      <4>1. prepared'[b][n] = [text |-> prepared[b][n].text, by |-> None]
        BY <1>4, <3>2
      <4>2. prepared[b][n].text \in Queries
        BY <3>1 DEF Statement
      <4> QED BY <3>1, <4>1, <4>2 DEF Statement
    <3>3. CASE prepared[b][n].by # c
      BY <1>4, <3>1, <3>3
    <3> QED BY <3>1, <3>2, <3>3
  <2>2. \A d, e \in Clients : d # e /\ link'[d] = link'[e] => link'[d] = None
    <3> SUFFICES ASSUME NEW d \in Clients, NEW e \in Clients, d # e, link'[d] = link'[e]
                 PROVE  link'[d] = None
      OBVIOUS
    <3>1. CASE d = c \/ e = c
      BY <1>3, <3>1
    <3>2. CASE d # c /\ e # c
      BY <1>3, <3>2 DEF TypeOK
    <3> QED BY <3>1, <3>2
  <2>3. \A d \in Clients : At(d, "idle") \/ link'[d] # None
    BY <1>1, <1>3 DEF TypeOK
  <2>4. \A d \in Clients : \A t \in DOMAIN cache'[d] : cache'[d][t] \in 1 .. next'[d] - 1
    <3> SUFFICES ASSUME NEW d \in Clients, NEW t \in DOMAIN cache'[d]
                 PROVE  cache'[d][t] \in 1 .. next'[d] - 1
      OBVIOUS
    <3>1. d # c /\ cache'[d] = cache[d] /\ next'[d] = next[d]
      BY <1>3
    <3> QED BY <3>1 DEF TypeOK
  <2> QED BY <1>1, <1>3, <2>1, <2>2, <2>3, <2>4 DEF TypeOK, demo, At
<1>8. OwnStatement' /\ LinkOK'
  <2>1. OwnStatement'
    BY <1>1 DEF OwnStatement, Persistent
  <2>2. LinkOK'
    BY <1>1, <1>3 DEF LinkOK, At
  <2> QED BY <2>1, <2>2
<1>9. NumbersOK'
  <2> SUFFICES ASSUME NEW b \in Backends, NEW n \in DOMAIN prepared'[b],
                      prepared'[b][n].by # None
               PROVE  n < next'[prepared'[b][n].by]
    BY DEF NumbersOK
  <2> DEFINE d == prepared[b][n].by
  <2>1. d # c /\ prepared'[b][n] = prepared[b][n] /\ n \in DOMAIN prepared[b]
    <3>1. /\ n \in DOMAIN prepared[b]
          /\ d = c => prepared'[b][n] = [text |-> prepared[b][n].text, by |-> None]
          /\ d # c => prepared'[b][n] = prepared[b][n]
      BY <1>4
    <3> HIDE DEF d
    <3>2. d # c
      BY <3>1
    <3> QED BY <3>1, <3>2
  <2>2. d \in Clients /\ n < next[d]
    <3>1. n \in DOMAIN prepared[b] /\ prepared[b][n].by # None
      BY <2>1
    <3>2. prepared[b][n] \in Statement
      BY <1>4
    <3>3. d \in Clients
      BY <3>1, <3>2 DEF Statement
    <3> QED BY <3>1, <3>3 DEF NumbersOK
  <2>3. next'[d] = next[d]
    BY <1>3, <2>1, <2>2
  <2> QED BY <2>1, <2>2, <2>3
<1>10. CacheOK'
  <2> SUFFICES ASSUME NEW d \in Clients, NEW t \in DOMAIN cache'[d]
               PROVE  \E b \in Backends : Has(prepared'[b], d, t, cache'[d][t])
    BY DEF CacheOK
  <2>1. d # c /\ cache'[d] = cache[d]
    BY <1>3
  <2>2. PICK b \in Backends : Has(prepared[b], d, t, cache[d][t])
    BY <2>1 DEF CacheOK
  <2> QED BY <1>5, <2>1, <2>2
<1>11. QueryOK'
  <2>1. ASSUME NEW d \in Clients, At(d, "prepared")
        PROVE  /\ \E a \in Backends : Has(prepared'[a], d, query[d].text, query[d].number)
               /\ query[d].number = Unnamed => Has(prepared'[link'[d]], d, query[d].text, Unnamed)
               /\ ~Persistent(d) => query[d].number = Unnamed
    <3>1. d # c /\ link'[d] = link[d] /\ link[d] \in Backends
      BY <1>1, <1>2, <1>3, <2>1 DEF TypeOK, At
    <3>2. PICK a \in Backends : Has(prepared[a], d, query[d].text, query[d].number)
      BY <2>1 DEF QueryOK
    <3>3. Has(prepared'[a], d, query[d].text, query[d].number)
      BY <1>5, <3>1, <3>2
    <3>4. ASSUME query[d].number = Unnamed
          PROVE  Has(prepared'[link'[d]], d, query[d].text, Unnamed)
      <4>1. Has(prepared[link[d]], d, query[d].text, Unnamed)
        BY <2>1, <3>4 DEF QueryOK
      <4> QED BY <1>5, <3>1, <4>1
    <3>5. ~Persistent(d) => query[d].number = Unnamed
      BY <2>1 DEF QueryOK
    <3> QED BY <3>3, <3>4, <3>5
  <2> HIDE DEF BouncerInv
  <2> QED BY <1>1, <2>1 DEF QueryOK, At, Persistent
<1>12. SessionOK'
  <2> SUFFICES ASSUME mode = "session", NEW b \in Backends, NEW n \in DOMAIN prepared'[b]
               PROVE  prepared'[b][n].by \in Clients /\ link'[prepared'[b][n].by] = b
    BY <1>1 DEF SessionOK
  <2> DEFINE d == prepared[b][n].by
  <2>1. n \in DOMAIN prepared[b] /\ link[c] # b
    BY <1>4
  <2>2. d \in Clients /\ link[d] = b
    BY <2>1 DEF SessionOK
  <2>3. d # c /\ prepared'[b][n] = prepared[b][n]
    BY <1>4, <2>1, <2>2
  <2>4. link'[d] = link[d]
    BY <1>3, <2>2, <2>3
  <2> QED BY <2>2, <2>3, <2>4
<1> QED BY <1>6, <1>7, <1>8, <1>9, <1>10, <1>11, <1>12

(* main takes an answer, or ends a loop.                                   *)
LEMMA MainStep ==
  ASSUME BouncerInv, ProbesOK, (\E c \in Clients : EndProbe(c)) \/ EndLoop
  PROVE  BouncerInv'
<1> USE DEF BouncerInv
<1>1. /\ UNCHANGED <<mode, prepared, link, query, cache, next>>
      /\ phase \in {"cached", "fixed", "passed", "error"}
      /\ probes \in 0 .. N
      /\ answer \in [Clients -> Errors \cup {"none", "ok", "borrowed", "another query"}]
  BY DEF EndProbe, EndLoop, TypeOK
<1>2. /\ answer' \in [Clients -> Errors \cup {"none", "ok", "borrowed", "another query"}]
      /\ \A d \in Clients : answer'[d] = "none" \/ answer'[d] = answer[d]
  BY <1>1 DEF EndProbe, EndLoop
<1>3. phase' \in {"cached", "fixed", "passed", "error"}
  BY <1>1 DEF EndProbe, EndLoop
<1>4. probes' \in 0 .. N
  <2>1. CASE \E c \in Clients : EndProbe(c)
    <3>1. PICK c \in Clients : EndProbe(c)
      BY <2>1
    <3>2. probes < N
      BY <3>1 DEF EndProbe, ProbesOK, Quiet
    <3>3. probes' = probes + 1 \/ probes' = 0 \/ probes' = probes
      BY <3>1 DEF EndProbe
    <3>4. probes \in 0 .. N /\ N \in Nat
      BY <1>1, BouncerAssumption
    <3> QED BY <3>2, <3>3, <3>4, OneMore
  <2>2. CASE EndLoop
    <3>1. probes' = probes \/ probes' = 0
      BY <2>2 DEF EndLoop
    <3>2. probes \in 0 .. N /\ N \in Nat
      BY <1>1, BouncerAssumption
    <3> QED BY <3>1, <3>2, OneMore
  <2> QED BY <2>1, <2>2
<1>5. TypeOK'
  BY <1>1, <1>2, <1>3, <1>4 DEF TypeOK, At
<1>6. Shape' /\ NumbersOK' /\ CacheOK' /\ SessionOK'
  BY <1>1 DEF Shape, NumbersOK, CacheOK, SessionOK
<1>7. QueryOK'
  BY <1>1 DEF QueryOK, At, Persistent
<1>8. OwnStatement' /\ LinkOK'
  <2>1. OwnStatement'
    BY <1>1, <1>2 DEF OwnStatement, Persistent
  <2>2. LinkOK'
    BY <1>1, <1>2 DEF LinkOK, At
  <2> QED BY <2>1, <2>2
<1> QED BY <1>5, <1>6, <1>7, <1>8

(* A step that leaves the demo's pools between two probes.                 *)
LEMMA QuietKept ==
  ASSUME ProbesOK, \A c \in Cached \cup Fixed : Quiet(c) => Quiet(c)', UNCHANGED demo
  PROVE  ProbesOK'
BY DEF ProbesOK, demo, Pool

(* The demo goes on only when its pools are between two probes.            *)
LEMMA ProbesStep ==
  ASSUME BouncerInv, ProbesOK, [Next]_vars
  PROVE  ProbesOK'
<1>1. /\ query \in [Clients -> [text : Queries, number : Nat,
                                at : {"idle", "linked", "prepared"}]]
      /\ answer \in [Clients -> Errors \cup {"none", "ok", "borrowed", "another query"}]
      /\ Cached \cup Fixed \subseteq Clients
  BY DEF BouncerInv, TypeOK, Shape, Clients
<1>2. CASE \E c \in Clients : Advance(c)
  <2>1. PICK c \in Clients : Advance(c)
    BY <1>2
  <2>2. ~At(c, "idle") /\ UNCHANGED demo
    BY <2>1 DEF Advance, Reuse, Prepare, Execute, At
  <2>3. ASSUME NEW d \in Clients, d # c
        PROVE  query'[d] = query[d] /\ answer'[d] = answer[d]
    BY <1>1, <2>1, <2>3 DEF Advance, Reuse, Prepare, Execute, End
  <2>4. \A d \in Cached \cup Fixed : Quiet(d) => Quiet(d)'
    BY <1>1, <2>2, <2>3 DEF Quiet, At
  <2> QED BY <2>2, <2>4, QuietKept
<1>3. CASE \E c \in Clients : Close(c)
  <2>1. UNCHANGED <<query, answer, demo>>
    BY <1>3 DEF Close
  <2>2. \A d \in Cached \cup Fixed : Quiet(d) => Quiet(d)'
    BY <2>1 DEF Quiet, At
  <2> QED BY <2>1, <2>2, QuietKept
<1>4. CASE \E c \in Others, text \in Queries : StartOther(c, text)
  <2>1. PICK c \in Others : \E text \in Queries : Start(c, text) /\ UNCHANGED demo
    BY <1>4 DEF StartOther
  <2>2. ASSUME NEW d \in Cached \cup Fixed
        PROVE  query'[d] = query[d] /\ answer'[d] = answer[d]
    <3>1. d # c /\ d \in Clients
      BY <1>1, BouncerAssumption
    <3> QED BY <1>1, <2>1, <3>1 DEF Start
  <2>3. \A d \in Cached \cup Fixed : Quiet(d) => Quiet(d)'
    BY <2>2 DEF Quiet, At
  <2> QED BY <2>1, <2>3, QuietKept
<1>5. CASE \E c \in Clients : StartProbe(c)
  <2>1. PICK c \in Clients : StartProbe(c)
    BY <1>5
  <2>2. /\ phase \in {"cached", "fixed"} /\ c \in Pool /\ probes < N
        /\ \A d \in Pool : Quiet(d)
        /\ UNCHANGED demo
    BY <2>1 DEF StartProbe, Idle, Quiet
  <2>3. ASSUME NEW d \in Clients, d # c
        PROVE  query'[d] = query[d] /\ answer'[d] = answer[d]
    BY <1>1, <2>1, <2>3 DEF StartProbe, Start
  <2>4. \A d \in Cached \cup Fixed : d # c /\ Quiet(d) => Quiet(d)'
    BY <1>1, <2>3 DEF Quiet, At
  <2>5. phase = "cached" => c \notin Fixed
    BY <2>2, BouncerAssumption DEF Pool
  <2>6. UNCHANGED <<phase, probes>>
    BY <2>2 DEF demo
  <2> QED BY <2>2, <2>4, <2>5, <2>6 DEF ProbesOK, Pool
<1>6. CASE \E c \in Clients : EndProbe(c)
  <2>1. PICK c \in Clients : EndProbe(c)
    BY <1>6
  <2>2. /\ phase \in {"cached", "fixed"} /\ c \in Pool /\ ~Quiet(c)
        /\ \A d \in Pool \ {c} : Quiet(d)
    BY <2>1 DEF EndProbe, Quiet, ProbesOK
  <2>3. /\ UNCHANGED query /\ answer' = [answer EXCEPT ![c] = "none"] /\ At(c, "idle")
        /\ phase' \in {phase, "error"} \/ (phase = "cached" /\ phase' = "fixed")
    BY <2>1 DEF EndProbe
  <2>4. Quiet(c)' /\ \A d \in Cached \cup Fixed : Quiet(d) => Quiet(d)'
    BY <1>1, <2>3 DEF Quiet, At
  <2>5. \A d \in Pool : Quiet(d)'
    BY <2>2, <2>4 DEF Pool
  <2>6. phase = "cached" => \A d \in Fixed : Quiet(d)'
    BY <2>4 DEF ProbesOK
  <2>7. phase = "fixed" => phase' # "cached"
    BY <2>3
  <2>8. phase' = "cached" => \A d \in Fixed : Quiet(d)'
    BY <2>2, <2>3, <2>6
  <2>9. phase' \in {"cached", "fixed"} => \A d \in Pool' : Quiet(d)'
    <3>1. CASE phase = "cached"
      BY <2>3, <2>5, <2>6, <3>1 DEF Pool
    <3>2. CASE phase = "fixed"
      BY <2>3, <2>5, <3>2 DEF Pool
    <3> QED BY <2>2, <3>1, <3>2
  <2> QED BY <2>8, <2>9 DEF ProbesOK
<1>7. CASE EndLoop
  <2>1. /\ UNCHANGED <<query, answer>> /\ phase' \in {"fixed", "passed"}
        /\ phase' = "fixed" => phase = "cached"
    BY <1>7 DEF EndLoop
  <2>2. \A d \in Cached \cup Fixed : Quiet(d) => Quiet(d)'
    BY <2>1 DEF Quiet, At
  <2>3. phase' = "fixed" => \A d \in Fixed : Quiet(d)'
    BY <2>1, <2>2 DEF ProbesOK
  <2>4. phase' = "fixed" => Pool' = Fixed
    BY DEF Pool
  <2> QED BY <2>1, <2>3, <2>4 DEF ProbesOK
<1>8. CASE UNCHANGED vars
  BY <1>8 DEF vars, ProbesOK, Quiet, At, Pool
<1> QED BY <1>2, <1>3, <1>4, <1>5, <1>6, <1>7, <1>8 DEF Next

-----------------------------------------------------------------------------
(* The theorems                                                            *)

LEMMA BouncerInit ==
  ASSUME Init
  PROVE  BouncerInv /\ ProbesOK
<1>1. /\ mode \in {"session", "transaction"}
      /\ prepared = [b \in Backends |-> Empty]
      /\ link = [c \in Clients |-> None]
      /\ query = [c \in Clients |-> NoQuery]
      /\ cache = [c \in Clients |-> Empty]
      /\ next = [c \in Clients |-> 1]
      /\ answer = [c \in Clients |-> "none"]
      /\ phase = "cached" /\ probes = 0
  BY DEF Init
<1>2. /\ \A c \in Clients : At(c, "idle") /\ ~At(c, "prepared") /\ DOMAIN cache[c] = {}
      /\ \A b \in Backends : DOMAIN prepared[b] = {}
  BY <1>1 DEF At, NoQuery, Empty
<1>3. probes \in 0 .. N
  BY <1>1, BouncerAssumption
<1>4. TypeOK
  BY <1>1, <1>2, <1>3 DEF TypeOK
<1>5. Shape
  <2>1. NoQuery \in [text : Queries, number : Nat, at : {"idle", "linked", "prepared"}]
    BY BouncerAssumption DEF NoQuery, Unnamed
  <2> QED BY <1>1, <1>2, <2>1 DEF Shape
<1>6. OwnStatement /\ LinkOK /\ NumbersOK /\ CacheOK /\ QueryOK /\ SessionOK
  BY <1>1, <1>2 DEF OwnStatement, LinkOK, NumbersOK, CacheOK, QueryOK, SessionOK
<1>7. ProbesOK
  BY <1>1, <1>2 DEF ProbesOK, Quiet, Pool, Clients
<1> QED BY <1>4, <1>5, <1>6, <1>7 DEF BouncerInv

(* The invariant is inductive.                                             *)
LEMMA BouncerStep ==
  ASSUME BouncerInv, ProbesOK, [Next]_vars
  PROVE  BouncerInv'
<1>1. CASE \E c \in Clients : Advance(c)
  BY <1>1, ReuseStep, PrepareStep, ExecuteStep DEF Advance
<1>2. CASE \E c \in Clients : Close(c)
  BY <1>2, CloseStep
<1>3. CASE \E c \in Clients : StartProbe(c)
  <2>1. PICK c \in Clients : Start(c, Probe) /\ UNCHANGED demo
    BY <1>3 DEF StartProbe
  <2> QED BY <2>1, StartStep, BouncerAssumption
<1>4. CASE \E c \in Others, text \in Queries : StartOther(c, text)
  <2>1. PICK c \in Others, text \in Queries : Start(c, text) /\ UNCHANGED demo
    BY <1>4 DEF StartOther
  <2>2. c \in Clients
    BY DEF Clients
  <2> QED BY <2>1, <2>2, StartStep
<1>5. CASE (\E c \in Clients : EndProbe(c)) \/ EndLoop
  BY <1>5, MainStep
<1>6. CASE UNCHANGED vars
  BY <1>6 DEF vars, demo, BouncerInv, TypeOK, Shape, OwnStatement, LinkOK, NumbersOK,
              CacheOK, QueryOK, SessionOK, At, Persistent
<1> QED BY <1>1, <1>2, <1>3, <1>4, <1>5, <1>6 DEF Next

(* It holds throughout.                                                    *)
LEMMA BouncerInvariant == Spec => [](BouncerInv /\ ProbesOK)
<1>1. Init => BouncerInv /\ ProbesOK
  BY BouncerInit
<1>2. BouncerInv /\ ProbesOK /\ [Next]_vars => (BouncerInv /\ ProbesOK)'
  BY BouncerStep, ProbesStep
<1> QED BY <1>1, <1>2, PTL DEF Spec

(* The variables of the bouncer and its clients have their types, and no   *)
(* backend serves two connections.                                         *)
THEOREM BouncerTyped == Spec => []TypeOK
<1>1. BouncerInv => TypeOK
  BY DEF BouncerInv
<1> QED BY <1>1, BouncerInvariant, PTL

(* A connection that keeps its backend, or whose statements have no names, *)
(* executes what it prepared itself.                                       *)
THEOREM StatementsAreOwn == Spec => []OwnStatement
<1>1. BouncerInv => OwnStatement
  BY DEF BouncerInv
<1> QED BY <1>1, BouncerInvariant, PTL

(* A missing statement is on another backend, and a name that is taken was *)
(* left by someone else.                                                   *)
THEOREM ErrorsAreOfMoving == Spec => ErrorsComeOfMoving
<1> DEFINE A == \A c \in Clients :
       /\ At(c, "prepared") /\ answer'[c] = "does not exist" =>
            \E b \in Backends \ {link[c]} :
              /\ query[c].number \in DOMAIN prepared[b]
              /\ prepared[b][query[c].number] = [text |-> query[c].text, by |-> c]
       /\ At(c, "linked") /\ answer'[c] = "already exists" =>
            prepared[link[c]][next[c]].by # c
<1>1. BouncerInv /\ [Next]_vars => [A]_vars
  <2> SUFFICES ASSUME BouncerInv, Next, NEW c \in Clients, ~At(c, "idle"),
                      answer'[c] # "none"
               PROVE
         /\ At(c, "prepared") /\ answer'[c] = "does not exist" =>
              \E b \in Backends \ {link[c]} :
                /\ query[c].number \in DOMAIN prepared[b]
                /\ prepared[b][query[c].number] = [text |-> query[c].text, by |-> c]
         /\ At(c, "linked") /\ answer'[c] = "already exists" =>
              prepared[link[c]][next[c]].by # c
    BY DEF At
  <2>1. /\ answer \in [Clients -> Errors \cup {"none", "ok", "borrowed", "another query"}]
        /\ answer[c] = "none" /\ Others \subseteq Clients
    BY DEF BouncerInv, TypeOK, LinkOK, Clients
  <2>2. Prepare(c) \/ Execute(c)
    <3>1. CASE \E d \in Clients : Advance(d)
      <4>1. PICK d \in Clients : Advance(d)
        BY <3>1
      <4>2. CASE Reuse(d)
        BY <2>1, <4>2 DEF Reuse
      <4>3. CASE Prepare(d)
        <5>1. \A e \in Clients : e # d => answer'[e] = answer[e]
          BY <2>1, <4>3 DEF Prepare, End
        <5> QED BY <2>1, <4>3, <5>1
      <4>4. CASE Execute(d)
        <5>1. \A e \in Clients : e # d => answer'[e] = answer[e]
          BY <2>1, <4>4 DEF Execute, End
        <5> QED BY <2>1, <4>4, <5>1
      <4> QED BY <4>1, <4>2, <4>3, <4>4 DEF Advance
    <3>2. CASE (\E d \in Clients : Close(d)) \/ EndLoop
      BY <2>1, <3>2 DEF Close, EndLoop
    <3>3. CASE \/ \E d \in Clients : StartProbe(d)
               \/ \E d \in Others, text \in Queries : StartOther(d, text)
      BY <2>1, <3>3 DEF StartProbe, StartOther, Start
    <3>4. CASE \E d \in Clients : EndProbe(d)
      BY <2>1, <3>4 DEF EndProbe
    <3> QED BY <3>1, <3>2, <3>3, <3>4 DEF Next
  <2>3. CASE Prepare(c)
    BY <2>3, PrepareStep DEF Prepare, At
  <2>4. CASE Execute(c)
    <3>1. At(c, "prepared") /\ ~At(c, "linked")
      BY <2>4 DEF Execute, At
    <3>2. PICK b \in Backends : Has(prepared[b], c, query[c].text, query[c].number)
      BY <3>1 DEF BouncerInv, QueryOK
    <3>3. answer'[c] = "does not exist" => query[c].number \notin DOMAIN prepared[link[c]]
      BY <2>1, <2>4 DEF Execute, End
    <3> QED BY <3>1, <3>2, <3>3 DEF Has
  <2> QED BY <2>2, <2>3, <2>4
<1> QED BY <1>1, BouncerInvariant, PTL DEF Spec, ErrorsComeOfMoving
=============================================================================
