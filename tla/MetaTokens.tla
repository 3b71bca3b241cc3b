----------------------------- MODULE MetaTokens -----------------------------
(* The Meta tokens of one user in Firestore: one document per name, at     *)
(* most one of them meant to be the default, read and written by logins,   *)
(* registrations, selections, deletions and by every tool call that needs  *)
(* a token (src/src/store/meta-token-repo.ts, callers in                   *)
(* src/src/transport/auth-routes.ts). Every operation is several round     *)
(* trips, none of them in a transaction, and may fail at any of them. A    *)
(* document keeps its kind, its flag and how near its expiry is.           *)
EXTENDS Integers, FiniteSets

CONSTANTS
  Names,      \* token names; a login saves the first
  personal, NoName,
  Ops         \* operations; each is carried out once

ASSUME TokensAssumption == personal \in Names /\ NoName \notin Names

VARIABLES
  docs,       \* name -> document, or NoDoc
  op,         \* op -> [pc, job, name, flag, seen]
  alone,      \* history: op -> no other op ran since it began
  orderly,    \* history: no two ops ever overlapped and none failed
  lastSet     \* history: name -> its last write was a set, not a delete

tokenVars == <<docs, op, alone, orderly, lastSet>>

NoDoc == [kind |-> "none", isDefault |-> FALSE, expiry |-> "never"]
Jobs == {"login", "register", "select", "delete", "get"}
TokenPlaces == {"idle", "asking", "listing", "clearing", "finding", "putting", "marking",
                "removing", "picking", "promoting", "reading", "exchanging", "done", "failed"}

TokensTypeOK ==
  /\ docs \in [Names -> [kind : {"user", "system_user"}, isDefault : BOOLEAN,
                         expiry : {"never", "far", "near"}] \cup {NoDoc}]
  /\ op \in [Ops -> [pc : TokenPlaces, job : Jobs \cup {"none"}, name : Names \cup {NoName},
                     flag : BOOLEAN, seen : SUBSET Names]]
  /\ alone \in [Ops -> BOOLEAN] /\ orderly \in BOOLEAN /\ lastSet \in [Names -> BOOLEAN]

TokensInit ==
  /\ docs = [n \in Names |-> NoDoc]
  /\ op = [q \in Ops |-> [pc |-> "idle", job |-> "none", name |-> NoName,
                          flag |-> FALSE, seen |-> {}]]
  /\ alone = [q \in Ops |-> TRUE] /\ orderly = TRUE
  /\ lastSet = [n \in Names |-> FALSE]

stored == {n \in Names : docs[n] # NoDoc}
defaults == {n \in stored : docs[n].isDefault}
running == {q \in Ops : op[q].pc \notin {"idle", "done", "failed"}}

Is(q, place) == op[q].pc = place
Moves(q, place) == op' = [op EXCEPT ![q].pc = place]

\* A query for one document of a set answers with any of them, or with none.
getDefaultTokenName == IF defaults = {} THEN {NoName} ELSE defaults

\* updateDocs changes documents that must exist: all of them, or the call
\* throws and none is changed.
updateDocs(names, field, v) ==
  docs' = [n \in Names |-> IF n \in names THEN [docs[n] EXCEPT ![field] = v] ELSE docs[n]]
updateOrThrow(q, names, field, v, then) ==
  \/ names \subseteq stored /\ updateDocs(names, field, v) /\ Moves(q, then) /\ UNCHANGED orderly
  \/ ~(names \subseteq stored) /\ UNCHANGED docs /\ Moves(q, "failed") /\ orderly' = FALSE

Start(q, job, n, place) ==
  /\ Is(q, "idle")
  /\ op' = [op EXCEPT ![q] = [@ EXCEPT !.pc = place, !.job = job, !.name = n]]
  /\ alone' = [o \in Ops |-> IF o = q THEN running = {} ELSE alone[o] /\ o \notin running]
  /\ orderly' = (orderly /\ running = {})
  /\ UNCHANGED <<docs, lastSet>>
-----------------------------------------------------------------------------
(* saveToken, by a login, which asks first whether there is a default, and *)
(* by a registration.                                                      *)

Login(q) == Start(q, "login", personal, "asking")
Register(q, n) == Start(q, "register", n, "finding")

AskDefault(q) ==
  /\ Is(q, "asking")
  /\ Moves(q, IF defaults = {} THEN "listing" ELSE "finding")
  /\ UNCHANGED <<docs, alone, orderly, lastSet>>

\* FindDefault that does not ask which token holds the default.
FindDefaultOfOthers(q) ==
  /\ Is(q, "finding")
  /\ \E d \in getDefaultTokenName :
       op' = [op EXCEPT ![q] = [@ EXCEPT !.pc = "putting", !.flag = d = NoName]]
  /\ UNCHANGED <<docs, alone, orderly, lastSet>>

\* Saving the token that holds the default keeps it the default.
FindDefault(q) ==
  /\ Is(q, "finding")
  /\ \E d \in getDefaultTokenName :
       op' = [op EXCEPT ![q] = [@ EXCEPT !.pc = "putting", !.flag = d \in {NoName, op[q].name}]]
  /\ UNCHANGED <<docs, alone, orderly, lastSet>>

PutToken(q) ==
  LET n == op[q].name IN
  /\ Is(q, "putting")
  /\ docs' = [docs EXCEPT ![n] =
       IF op[q].job = "login" THEN [kind |-> "user", isDefault |-> op[q].flag, expiry |-> "far"]
       ELSE [kind |-> "system_user", isDefault |-> op[q].flag, expiry |-> "never"]]
  /\ lastSet' = [lastSet EXCEPT ![n] = TRUE]
  /\ Moves(q, "done")
  /\ UNCHANGED <<alone, orderly>>
-----------------------------------------------------------------------------
(* clearDefaults, and setDefaultToken around it.                           *)

Select(q, n) == Start(q, "select", n, "reading")

\* ListForClear that lists the one default a query finds.
ListOneForClear(q) ==
  /\ Is(q, "listing")
  /\ \E d \in getDefaultTokenName :
       op' = [op EXCEPT ![q] = [@ EXCEPT !.pc = "clearing", !.seen = {d} \ {NoName}]]
  /\ UNCHANGED <<docs, alone, orderly, lastSet>>

ListForClear(q) ==
  /\ Is(q, "listing")
  /\ op' = [op EXCEPT ![q] = [@ EXCEPT !.pc = "clearing", !.seen = stored]]
  /\ UNCHANGED <<docs, alone, orderly, lastSet>>

clearedThen(q) == IF op[q].job = "login" THEN "putting" ELSE "marking"

\* The batch sets the flag of every document that was listed.
clearDefaults(q) ==
  /\ Is(q, "clearing")
  /\ \/ /\ op[q].seen \subseteq stored
        /\ updateDocs(op[q].seen, "isDefault", FALSE)
        /\ op' = [op EXCEPT ![q] = [@ EXCEPT !.pc = clearedThen(q), !.flag = TRUE, !.seen = {}]]
        /\ UNCHANGED orderly
     \/ /\ ~(op[q].seen \subseteq stored)
        /\ Moves(q, "failed") /\ orderly' = FALSE /\ UNCHANGED docs
  /\ UNCHANGED <<alone, lastSet>>

setDefaultToken(q) ==
  /\ Is(q, "marking")
  /\ updateOrThrow(q, {op[q].name}, "isDefault", TRUE, "done")
  /\ UNCHANGED <<alone, lastSet>>
-----------------------------------------------------------------------------
(* deleteToken, and the read that select, delete and get begin with.       *)

Delete(q, n) == Start(q, "delete", n, "reading")

\* A get of no particular name asks for the default's first.
GetToken(q, n) == Start(q, "get", n, "reading")

ReadDoc(q) ==
  LET n == op[q].name IN
  /\ Is(q, "reading")
  /\ op' = [op EXCEPT ![q] = [@ EXCEPT
       !.flag = docs[n].isDefault,
       !.pc = IF n \notin stored THEN "done"
              ELSE CASE op[q].job = "select" -> "listing"
                     [] op[q].job = "delete" -> "removing"
                     [] op[q].job = "get" ->
                          IF docs[n].kind = "user" /\ docs[n].expiry = "near"
                          THEN "exchanging" ELSE "done"]]
  /\ UNCHANGED <<docs, alone, orderly, lastSet>>

deleteToken(q) ==
  LET n == op[q].name IN
  /\ Is(q, "removing")
  /\ docs' = [docs EXCEPT ![n] = NoDoc]
  /\ lastSet' = [lastSet EXCEPT ![n] = FALSE]
  /\ Moves(q, IF op[q].flag THEN "picking" ELSE "done")
  /\ UNCHANGED <<alone, orderly>>

PickRemaining(q) ==
  /\ Is(q, "picking")
  /\ \/ stored = {} /\ Moves(q, "done")
     \/ \E n \in stored :
          op' = [op EXCEPT ![q] = [@ EXCEPT !.pc = "promoting", !.seen = {n}]]
  /\ UNCHANGED <<docs, alone, orderly, lastSet>>

Promote(q) ==
  /\ Is(q, "promoting")
  /\ updateOrThrow(q, op[q].seen, "isDefault", TRUE, "done")
  /\ UNCHANGED <<alone, lastSet>>
-----------------------------------------------------------------------------
(* maybeRefresh: a long-lived token near its expiry is exchanged at Meta   *)
(* and the new one written over it; a failure is no error of the caller's. *)

\* PersistRefresh with a set in place of the update.
PersistRefreshBySet(q) ==
  /\ Is(q, "exchanging")
  /\ docs' = [docs EXCEPT ![op[q].name] = [kind |-> "user", isDefault |-> op[q].flag, expiry |-> "far"]]
  /\ Moves(q, "done")
  /\ UNCHANGED <<alone, orderly, lastSet>>

\* The update of the document may find it deleted: the old token is returned.
PersistRefresh(q) ==
  LET n == op[q].name IN
  /\ Is(q, "exchanging")
  /\ IF n \in stored THEN updateDocs({n}, "expiry", "far") ELSE UNCHANGED docs
  /\ Moves(q, "done")
  /\ UNCHANGED <<alone, orderly, lastSet>>

Approach(n) ==
  /\ docs[n].expiry = "far"
  /\ docs' = [docs EXCEPT ![n].expiry = "near"]
  /\ UNCHANGED <<op, alone, orderly, lastSet>>

\* A round trip to Firestore or Meta throws, or the server dies.
OpFails(q) ==
  /\ q \in running
  /\ Moves(q, "failed") /\ orderly' = FALSE
  /\ UNCHANGED <<docs, alone, lastSet>>

TokenStep(q) ==
  \/ Login(q) \/ \E n \in Names : Register(q, n) \/ Select(q, n) \/ Delete(q, n) \/ GetToken(q, n)
  \/ AskDefault(q) \/ FindDefault(q) \/ PutToken(q) \/ ListForClear(q) \/ clearDefaults(q)
  \/ setDefaultToken(q) \/ ReadDoc(q) \/ deleteToken(q) \/ PickRemaining(q) \/ Promote(q)
  \/ PersistRefresh(q) \/ OpFails(q)

TokensNext ==
  \/ \E q \in Ops : TokenStep(q)
  \/ \E n \in Names : Approach(n)

TokensSpec == TokensInit /\ [][TokensNext]_tokenVars
-----------------------------------------------------------------------------
\* As long as operations come one after the other and none fails midway, a
\* user who has tokens has exactly one default, whatever was saved again,
\* selected or deleted (saveToken, setDefaultToken, deleteToken).
OneDefaultAtRest ==
  orderly /\ running = {} /\ stored # {} => Cardinality(defaults) = 1

\* Whatever interrupted and overlapping operations left behind, one selection
\* that runs by itself leaves its token the only default, and one login or
\* registration that runs by itself leaves a default.
Repaired(q) ==
  /\ op[q].job = "select" /\ op[q].name \in stored => defaults = {op[q].name}
  /\ op[q].job \in {"login", "register"} => defaults # {}

AloneRepairs ==
  [][\A q \in Ops : alone[q] /\ q \in running /\ op'[q].pc = "done" => Repaired(q)']_tokenVars

\* No batch, promotion or late refresh brings back a token that was deleted
\* meanwhile: a document that exists was saved after its last deletion.
NoResurrection == \A n \in stored : lastSet[n]
=============================================================================
