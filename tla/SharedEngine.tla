----------------------------- MODULE SharedEngine -----------------------------
(***************************************************************************)
(* What a LothEngine promises to the tasks that share it, without clients, *)
(* lines and revisions: every call takes effect at one moment between its  *)
(* beginning and its end, a write as a whole, a fully consistent check on  *)
(* the grants of that moment, any other read on those there are or have    *)
(* been; then a check is decided by the policies of a later moment.  Once  *)
(* the engine is closed no call begins.                                    *)
(***************************************************************************)
CONSTANTS
  Callers,
  Requests,  \* what they ask for: see Authorization
  Grants,
  Names,     \* the grants that a request is about
  Policies,  \* what the engine may be given
  Answers    \* what a policy makes of the grants found and of a context

VARIABLES
  store,     \* the grants there are
  past,      \* the stores there have been, this one included
  policies,  \* those in force
  closed,    \* the engine has seen the replication pipeline fail
  stage,     \* how far every task's call is
  asked,     \* what it asks for
  found,     \* the grants it found
  verdict    \* what it returned

vars == <<store, past, policies, closed, stage, asked, found, verdict>>

Nothing == [op |-> "none"]

Init ==
  /\ store \in SUBSET Grants
  /\ past = {store}
  /\ policies \in Policies
  /\ closed = FALSE
  /\ stage = [c \in Callers |-> "idle"]
  /\ asked = [c \in Callers |-> Nothing]
  /\ found = [c \in Callers |-> {}]
  /\ verdict = [c \in Callers |-> "pending"]

Free(c) == stage[c] \in {"idle", "returned"}

(* A call begins, or is refused at once. *)
Ask(c, s, v) ==
  /\ Free(c)
  /\ stage' = [stage EXCEPT ![c] = s]
  /\ \E req \in Requests : asked' = [asked EXCEPT ![c] = req]
  /\ found' = [found EXCEPT ![c] = {}]
  /\ verdict' = [verdict EXCEPT ![c] = v]
  /\ UNCHANGED <<store, past, policies, closed>>

Begin(c)  == ~closed /\ Ask(c, "asked", "pending")
Refuse(c) == closed /\ Ask(c, "returned", "error")

(* It takes effect. *)
Write(c) ==
  /\ stage[c] = "asked" /\ asked[c].op \in {"register", "revoke", "revokeByFilter"}
  /\ stage' = [stage EXCEPT ![c] = "done"]
  /\ store' = IF asked[c].op = "register" THEN store \cup Names[asked[c]]
                                          ELSE store \ Names[asked[c]]
  /\ past' = past \cup {store'}
  /\ UNCHANGED <<policies, closed, asked, found, verdict>>

Latest(req) == req.op = "check" /\ req.strict

Read(c) ==
  /\ stage[c] = "asked" /\ asked[c].op \in {"check", "lookup"}
  /\ stage' = [stage EXCEPT ![c] = "done"]
  /\ \E s \in IF Latest(asked[c]) THEN {store} ELSE past :
       found' = [found EXCEPT ![c] = s \cap Names[asked[c]]]
  /\ UNCHANGED <<store, past, policies, closed, asked, verdict>>

Policy(req) == IF req.override # "none" THEN req.override ELSE policies

(* It ends: with an error at any moment, its effect notwithstanding. *)
End(c, v) ==
  /\ stage' = [stage EXCEPT ![c] = "returned"]
  /\ verdict' = [verdict EXCEPT ![c] = v]
  /\ UNCHANGED <<store, past, policies, closed, asked, found>>

Return(c) == stage[c] = "done" /\ asked[c].op # "check" /\ End(c, "ok")

Decide(c) ==
  /\ stage[c] = "done" /\ asked[c].op = "check"
  /\ End(c, Answers[Policy(asked[c])][found[c] # {}][asked[c].context])

Fail(c) == stage[c] \in {"asked", "done"} /\ End(c, "error")

Swap ==
  /\ policies' \in Policies
  /\ UNCHANGED <<store, past, closed, stage, asked, found, verdict>>

Close ==
  /\ closed' = TRUE
  /\ UNCHANGED <<store, past, policies, stage, asked, found, verdict>>

Next ==
  \/ \E c \in Callers :
       \/ Begin(c) \/ Refuse(c) \/ Write(c) \/ Read(c)
       \/ Return(c) \/ Decide(c) \/ Fail(c)
  \/ Swap \/ Close

Spec == Init /\ [][Next]_vars

=============================================================================
