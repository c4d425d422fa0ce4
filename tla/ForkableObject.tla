---------------------------- MODULE ForkableObject ----------------------------
(***************************************************************************)
(* The replicas of one forkable object (src/data/model/forkable/): an       *)
(* object whose ops extend one line, which forks when two replicas extend   *)
(* it at once.  A fork choice rule picks the fork that every replica shows, *)
(* and a merge op joins the forks.  The object is the counter of            *)
(* test/data/types/PositiveCounter.ts: it adds up the changes, stays above  *)
(* zero, and prefers the longer fork, then the larger hash.                 *)
(*                                                                         *)
(* An op is its place in ops.  A replica applies the ops of the others in   *)
(* causal order; an op may be undone once and redone once.  What an         *)
(* instance keeps: has (_allForkableOps), undone, unmet (the previous ops   *)
(* an op still waits for), eligible, terminal, fork, current, and choices,  *)
(* the terminal ops from the best to the worst.                            *)
(***************************************************************************)
EXTENDS ForkPoint, FiniteSetsExt

CONSTANTS Replicas, Amounts,
          Limits      \* bounds on the ops, and on the ops that are ever undone

VARIABLES limit, ops, struck, restored, rep
vars == <<limit, ops, struck, restored, rep>>

Ops  == DOMAIN ops
UpTo == [i \in 1..limit.ops |-> i]

Has(s)     == DOMAIN s.all
Prev(s, o) == s.all[o].prev
After(s, o) == {n \in Has(s) : o \in Prev(s, n)}

Eligible(s, o) == o \notin s.undone /\ s.unmet[o] = {}
TerminalEligible(s, o) == Eligible(s, o) /\ \A n \in After(s, o) : ~ Eligible(s, n)

\* SettlementRule: whether n should replace o as the current op.
Replaces(n, o) == n.height > o.height \/ (n.height = o.height /\ n.hash > o.hash)

-----------------------------------------------------------------------------
(* What becomes eligible with an op or ceases to be with it.               *)

\* cascadeEligibleOpAdditions(): the op, and what follows when all that it
\* waited for was added.
Added(s, o) ==
  FoldLeft(LAMBDA A, n :
    IF /\ n \in Has(s) /\ (n = o \/ Prev(s, n) \cap A # {})
       /\ n \notin s.undone /\ s.unmet[n] \subseteq A
    THEN A \cup {n} ELSE A, {}, UpTo)
\* cascadeEligibleOpRemovals()
Removed(s, o) ==
  FoldLeft(LAMBDA R, n :
    IF n = o \/ (n \in Has(s) /\ Prev(s, n) \cap R # {} /\ Eligible(s, n))
    THEN R \cup {n} ELSE R, {}, UpTo)

\* mutant: the ops that follow the removed ones do not wait for them.
OnlyAdded(s, A, R) ==
  [s EXCEPT !.unmet = [n \in Has(s) |-> @[n] \ A], !.eligible = (@ \cup A) \ R]
Cascade(s, A, R) ==
  [s EXCEPT !.unmet    = [n \in Has(s) |-> (@[n] \ A) \cup (Prev(s, n) \cap R)],
            !.eligible = (@ \cup A) \ R]

\* updateEligibleTerminalOps(): what to add to and remove from the terminal ops.
\* When an op stops being eligible, it is the op that is added, not the one before it.
NewTerminal(s, A, R) ==
  {o \in A : TerminalEligible(s, o)} \cup {o \in R : \E p \in Prev(s, o) : TerminalEligible(s, p)}
Followed(s, A) == {p \in s.terminal : \E o \in A : p \in Prev(s, o)}

-----------------------------------------------------------------------------
(* The fork choice.                                                        *)

\* toAddToCurrentFork(): back from the new terminal op to the current fork, and
\* the ops of the current fork where that ends.
ToAdd(s, t) ==
  FoldRight(LAMBDA o, N :
    IF o \in Has(s) \ s.fork /\ (o = t \/ After(s, o) \cap N # {}) THEN N \cup {o} ELSE N, UpTo, {})
Forking(s, t, N) == {o \in s.fork : o = t \/ After(s, o) \cap N # {}}
\* mutant: an op goes though another op of the fork follows it.
RemoveAll(s, forking) ==
  FoldRight(LAMBDA o, R :
    IF o \notin forking /\ o \in Has(s) /\ (o = s.current \/ After(s, o) \cap R # {})
    THEN R \cup {o} ELSE R, UpTo, {})
\* toRemoveFromCurrentFork(): back from the current op to those, unless an op
\* that stays follows.
ToRemove(s, forking) ==
  FoldRight(LAMBDA o, R :
    IF /\ o \notin forking /\ o \in Has(s) /\ (o = s.current \/ After(s, o) \cap R # {})
       /\ After(s, o) \cap s.fork \subseteq R
    THEN R \cup {o} ELSE R, UpTo, {})

SetCurrentForkTerminalOpTo(s, t) ==
  LET N == ToAdd(s, t)
      R == ToRemove(s, Forking(s, t, N))
  IN  [s EXCEPT !.fork = (@ \ R) \cup N, !.current = t]

\* A choice is placed before the first one that it should replace.
Insert(s, choices, n) ==
  InsertAt(choices, 1 + Cardinality({i \in DOMAIN choices :
             \A j \in 1..i : ~ Replaces(s.all[n], s.all[choices[j]])}), n)
ApplyForkChoiceRule(s, add, remove) ==
  LET Remains(o) == o \notin remove
      choices == FoldSet(LAMBDA n, cs : Insert(s, cs, n), SelectSeq(s.choices, Remains), add)
      best    == IF choices = <<>> THEN 0 ELSE Head(choices)
      c       == [s EXCEPT !.choices = choices]
  IN  IF best = s.current THEN c ELSE SetCurrentForkTerminalOpTo(c, best)

Mutate(s, o, valid) ==
  LET A      == IF valid THEN Added(s, o) ELSE {}
      R      == IF valid THEN {} ELSE Removed(s, o)
      e      == Cascade(s, A, R)
      add    == NewTerminal(e, A, R)
      remove == Followed(e, A)
  IN  IF A \cup R = {} THEN s
      ELSE ApplyForkChoiceRule([e EXCEPT !.terminal = (@ \cup add) \ remove], add, remove)

\* apply(): the op waits for the previous ops that are not eligible.
Apply(s, o, op) ==
  LET unmet == {p \in op.prev : ~ Eligible(s, p)}
  IN  Mutate([s EXCEPT !.all      = @ @@ (o :> op),
                       !.unmet    = @ @@ (o :> unmet),
                       !.eligible = IF unmet = {} THEN @ \cup {o} ELSE @], o, TRUE)

-----------------------------------------------------------------------------
Init ==
  /\ limit \in Limits
  /\ ops = <<>> /\ struck = {} /\ restored = {}
  /\ rep = [r \in Replicas |->
       [all |-> <<>>, undone |-> {}, redone |-> {}, unmet |-> <<>>, eligible |-> {},
        terminal |-> {}, fork |-> {}, current |-> 0, choices |-> <<>>]]

\* applyNewOp(): an op that was made by a replica, with a hash above those of
\* all the ops there are, or below.
ApplyNewOp(r, prev, amount, value, height) ==
  LET n == Len(ops) + 1 IN
  \E hash \in {n, -n} :
    LET op == [prev |-> prev, amount |-> amount, value |-> value, height |-> height, hash |-> hash]
    IN  /\ n <= limit.ops
        /\ ops' = Append(ops, op)
        /\ rep' = [rep EXCEPT ![r] = Apply(@, n, op)]
        /\ UNCHANGED <<limit, struck, restored>>

\* changeValueBy(): on top of the current op; the value cannot go below zero.
ChangeValueBy(r, amount) ==
  LET c      == rep[r].current
      value  == (IF c = 0 THEN 0 ELSE ops[c].value) + amount
  IN  /\ value >= 0
      /\ ApplyNewOp(r, {c} \ {0}, amount, value, IF c = 0 THEN 0 ELSE ops[c].height + 1)

\* settle(): merges the terminal ops.  The changes since their fork point are
\* added up; the ops of a merge are those with none after them.
Settlement(s, targets) ==
  LET f      == FindForkPoint([o \in Has(s) |-> Prev(s, o)], targets)
      change == FoldSet(LAMBDA o, v : s.all[o].amount + v, 0, f.contents)
  IN  [prev |-> f.merged, amount |-> 0,
       value  |-> change + IF f.point = 0 THEN 0 ELSE s.all[f.point].value,
       height |-> Max({0} \cup {s.all[o].height : o \in f.contents}) + 1]
Settle(r) ==
  /\ Cardinality(rep[r].terminal) > 1
  /\ \E targets \in SetToSeqs(rep[r].terminal) :
       LET op == Settlement(rep[r], targets)
       IN  op.value >= 0 /\ ApplyNewOp(r, op.prev, 0, op.value, op.height)

\* An op of another replica, after the ops that it comes after.
Receive(r, o) ==
  /\ o \notin Has(rep[r]) /\ ops[o].prev \subseteq Has(rep[r])
  /\ rep' = [rep EXCEPT ![r] = Apply(@, o, ops[o])]
  /\ UNCHANGED <<limit, ops, struck, restored>>

\* The undo of an op, or its redo, is created or received.
Undo(r, o) ==
  /\ o \in Has(rep[r]) \ (rep[r].undone \cup rep[r].redone)
  /\ struck' = struck \cup {o} /\ Cardinality(struck') <= limit.undos
  /\ rep' = [rep EXCEPT ![r] = Mutate([@ EXCEPT !.undone = @ \cup {o}], o, FALSE)]
  /\ UNCHANGED <<limit, ops, restored>>
Redo(r, o) ==
  /\ o \in rep[r].undone
  /\ restored' = restored \cup {o}
  /\ rep' = [rep EXCEPT ![r] =
       Mutate([@ EXCEPT !.undone = @ \ {o}, !.redone = @ \cup {o}], o, TRUE)]
  /\ UNCHANGED <<limit, ops, struck>>

Next ==
  \E r \in Replicas :
    \/ \E a \in Amounts : ChangeValueBy(r, a)
    \/ Settle(r)
    \/ \E o \in Ops : Receive(r, o) \/ Undo(r, o) \/ Redo(r, o)

Spec == Init /\ [][Next]_vars

-----------------------------------------------------------------------------
Past(o) ==
  LET past[p \in Ops] == {p} \cup UNION {past[q] : q \in ops[p].prev}
  IN  IF o = 0 THEN {} ELSE past[o]
NeverUndone(s) == s.undone \cup s.redone = {}

\* However undos, redos and ops interleave, an op is eligible exactly when it is
\* valid and all the ops before it are eligible.
EligibleExact ==
  \A r \in Replicas :
    LET s == rep[r]
    IN  s.eligible = {o \in Has(s) : o \notin s.undone /\ Prev(s, o) \subseteq s.eligible}

\* The fork that a replica shows is its best op and exactly the ops that lead to
\* it, so that replicas with the same ops show the same; and what can be settled
\* is the end of each fork, no more and no less.
ForkIsTheBest ==
  \A r \in Replicas :
    LET s == rep[r] IN
      NeverUndone(s) =>
        /\ s.fork = Past(s.current)
        /\ \A o \in Has(s) \ {s.current} : Replaces(ops[s.current], ops[o])
        /\ s.terminal = {o \in Has(s) : After(s, o) = {}}
        /\ s.terminal = Range(s.choices)

\* The value of an op is the sum of all the changes that lead to it, each once,
\* whatever forks were merged on the way.
ValuesAddUp ==
  struck = {} => \A o \in Ops : ops[o].value = MapThenSumSet(LAMBDA p : ops[p].amount, Past(o))
=============================================================================
