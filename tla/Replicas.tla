------------------------------ MODULE Replicas ------------------------------
(***************************************************************************)
(* The replicas of one collection (src/data/collections), of any of the    *)
(* types of CollectionTypes, that are changed concurrently and get each    *)
(* other's ops.  A causal collection may have mutable writers: a CausalSet *)
(* of identities that its administrator changes.  Whoever is in it attests *)
(* that with an op of that set for each op of his                          *)
(* (src/data/model/causal/Authorization.ts).                               *)
(*                                                                         *)
(* What the replicas are built on is abstracted to what ObjectStore and    *)
(* HistorySynchronizer promise: ops come after those they depend on, and   *)
(* the store undoes and redoes, one at a time and sooner or later, what    *)
(* deletions in the writers' set strike.                                   *)
(*                                                                         *)
(* Causal collections wait for their authorizer between creating an op and *)
(* applying it; anything may come in meanwhile.                            *)
(***************************************************************************)
EXTENDS CollectionTypes

CONSTANTS Replicas,  \* a set of numbers; each acts with the identity of that number
          Admin,     \* the one in the immutable writers of both collections
          Settings   \* the collections there may be: type; whether they have writers;
                     \* elems, values 1..elems; ops, calls begin while there are fewer
                     \* ops; may, the calls that each replica's application makes;
                     \* strikes, whether ops are undone from outside

ASSUME ReplicasAssumption == Replicas \subseteq Nat \ {0} /\ Admin \in Replicas

VARIABLES setting,  \* the collection
          ops,      \* all the ops
          has,      \* of each replica, the ops it applied
          undone,   \* those of them that the cascades have undone
          struck,   \* ops of the writers' set that are undone from outside
          members,  \* of each replica, the state of the writers' set
          content,  \* and of the collection
          call      \* the call it is executing
replicas == <<has, undone, members, content>>
vars     == <<setting, ops, struck, replicas, call>>

-----------------------------------------------------------------------------
type    == setting.type
Elems   == 1..setting.elems
IsCausal == type \in CausalTypes
Idle    == [todo |-> <<>>, ready |-> <<>>, later |-> {}]

\* An op that was just constructed.  Ops have no author where anyone can write.
Draft(obj, kind, e, r) ==
  [obj |-> obj, kind |-> kind, elem |-> e, of |-> {}, ord |-> NoOrdinal, seq |-> 0, time |-> 0,
   author |-> IF setting.writers THEN r ELSE 0, causal |-> {}, for |-> {}, prev |-> {}, id |-> 0]

Init ==
  /\ setting \in Settings
  /\ ops = <<>> /\ struck = {}
  /\ has     = [r \in Replicas |-> {}]
  /\ undone  = [r \in Replicas |-> {}]
  /\ members = [r \in Replicas |-> EmptyCausalSet]
  /\ content = [r \in Replicas |-> Empty(type)]
  /\ call    = [r \in Replicas |-> Idle]

\* The terminal ops of one of the objects, and what an op comes after.
Terminal(r, obj) ==
  LET own == {i \in has[r] : ops[i].obj = obj}
  IN  own \ UNION {ops[i].prev : i \in own}
Past(o) ==
  LET past[i \in DOMAIN ops] == ops[i].prev \cup UNION {past[p] : p \in ops[i].prev}
  IN  past[o]

\* An op is what it says: the same one may be created twice.
IndexOf(all, op) == CHOOSE i \in DOMAIN all : all[i] = op
With(all, op)    == IF op \in Range(all) THEN all ELSE Append(all, op)

\* apply(), for ops that are in all: an op is applied once.
Apply(r, all, new) ==
  LET fresh == SelectSeq([k \in DOMAIN new |-> IndexOf(all, new[k])], LAMBDA i : i \notin has[r])
      mutated(obj, t, s) ==
        FoldLeft(LAMBDA u, i : IF all[i].obj = obj
                               THEN Mutate(t, all, u, i, TRUE, has[r] \ undone[r]) ELSE u, s, fresh)
  IN  /\ ops' = all
      /\ has'     = [has EXCEPT ![r] = @ \cup Range(fresh)]
      /\ members' = [members EXCEPT ![r] = mutated("members", "CausalSet", @)]
      /\ content' = [content EXCEPT ![r] = mutated("content", type, @)]
      /\ UNCHANGED <<setting, undone, struck>>

\* applyNewOp(): an op comes after the terminal ops, unless it was set to come
\* after others.
Now(r, op) == [op EXCEPT !.prev = Terminal(r, op.obj)]
ApplyNewOp(r, op) == Apply(r, With(ops, Now(r, op)), <<Now(r, op)>>)

-----------------------------------------------------------------------------
(* Authorization: writers need nothing, the others attest that they are     *)
(* members.                                                                 *)
Writers(obj) == IF setting.writers THEN {Admin} ELSE {0}
NonCausal(op) == [op EXCEPT !.causal = {}]
Membership(r, e) == For(ops, members[r].current, e)
Attestation(r, a, op) ==
  [Now(r, Draft("members", "attest", 0, 0)) EXCEPT !.causal = {a}, !.for = {NonCausal(op)}]

\* The next op of a call is set to come after the terminal ops, and authorized:
\* by an attestation, when needed, that is applied at once.  Without
\* authorization the call ends with an error.
Authorize(r, c) ==
  LET op == Now(r, Head(c.todo))
      on == [c EXCEPT !.todo = Tail(@)] IN
  IF op.author \in Writers(op.obj)
  THEN /\ call' = [call EXCEPT ![r] = [on EXCEPT !.ready = Append(@, op)]]
       /\ UNCHANGED <<setting, ops, struck, replicas>>
  ELSE IF Membership(r, op.author) = {}
  THEN call' = [call EXCEPT ![r] = Idle] /\ UNCHANGED <<setting, ops, struck, replicas>>
  ELSE \E a \in Membership(r, op.author) :
         LET attest == Attestation(r, a, op)
             all    == With(ops, attest) IN
         /\ Apply(r, all, <<attest>>)
         /\ call' = [call EXCEPT ![r] =
              [on EXCEPT !.ready = Append(@, [op EXCEPT !.causal = {IndexOf(all, attest)}])]]

AuthorizeNext(r) == call[r].ready # <<>> /\ call[r].todo # <<>> /\ Authorize(r, call[r])

\* Once all the ops of the call are authorized they are applied.
\* mutant: an op comes after what is there when it is applied.
PreparedNow(r, op) == Now(r, op)
Prepared(r, op) == op
ApplyPrepared(r) ==
  LET new == [k \in DOMAIN call[r].ready |-> Prepared(r, call[r].ready[k])] IN
  /\ call[r].ready # <<>> /\ call[r].todo = <<>>
  /\ Apply(r, FoldLeft(With, ops, new), new)
  /\ call' = [call EXCEPT ![r].ready = <<>>]

\* What whoever gets an op looks at: in shouldAcceptMutationOp() who may write,
\* and in validate() what each kind of op is made of.
Attested(op) ==
  \A a \in op.causal : /\ ops[a].kind = "attest" /\ ops[a].for = {NonCausal(op)}
                        /\ \A add \in ops[a].causal : ops[add].elem = op.author
Authorized(op) ==
  IF op.author \in Writers(op.obj) THEN op.causal = {}
  ELSE setting.writers /\ op.obj = "content" /\ Cardinality(op.causal) = 1 /\ Attested(op)
ShouldAcceptMutationOp(op) == op.kind # "attest" => Authorized(op)
ByAWriter(op) == op.author \in Writers(op.obj)

IsOrdinal(o) == o # <<>> /\ Last(o) # First
IsAddition(op)    == op.elem # NoValue
IsInsertion(op)   == op.elem # NoValue /\ IsOrdinal(op.ord)
IsUpdate(op)      == op.elem # NoValue /\ op.seq >= 0 /\ op.time # 0
IsAttestation(op) == \A a \in op.causal : ops[a].kind = "add" /\ ops[a].obj = op.obj
OfElement(op, kind) ==
  op.of # {} /\ \A i \in op.of : ops[i].kind = kind /\ ops[i].obj = op.obj /\ ops[i].elem = op.elem
IsSetDeletion(op)    == OfElement(op, "add")
IsArrayDeletion(op)  == OfElement(op, "insert")
IsCausalDeletion(op) ==
  Cardinality(op.of) = 1 /\ (OfElement(op, "add") \/ OfElement(op, "insert"))

Accepted(op) ==
  LET causal == op.obj = "members" \/ IsCausal IN
  /\ IF causal THEN ShouldAcceptMutationOp(op) ELSE ByAWriter(op)
  /\ CASE op.kind = "add"    -> IsAddition(op)
       [] op.kind = "insert" -> IsInsertion(op)
       [] op.kind = "update" -> IsUpdate(op)
       [] op.kind = "attest" -> IsAttestation(op)
       [] op.kind = "delete" -> IF causal THEN IsCausalDeletion(op)
                                ELSE IsSetDeletion(op) \/ IsArrayDeletion(op)

-----------------------------------------------------------------------------
(* The calls of the application.                                            *)
CanCall(r, c) == call[r] = Idle /\ Len(ops) < setting.ops /\ c \in setting.may[r]

\* The mutable collections apply an op as they create it, the causal ones
\* authorize it first.
Create(r, op)    == ApplyNewOp(r, op) /\ UNCHANGED call
Begin(r, drafts) == Authorize(r, [Idle EXCEPT !.todo = drafts])
\* A deletion of the causal collections is for one op.
Deletions(draft, old) == SetToSeq({[draft EXCEPT !.of = {i}] : i \in old})

AddToGrowOnlySet(r, e) ==
  /\ type = "GrowOnlySet" /\ CanCall(r, "add") /\ e \notin content[r].elements
  /\ Create(r, Draft("content", "add", e, r))
\* An addition to a MutableSet has a random id: no two are the same.
Addition(r, e) == [Draft("content", "add", e, r) EXCEPT !.id = Len(ops) + 1]
AddToSet(r, e) ==
  /\ type = "MutableSet" /\ CanCall(r, "add")
  /\ Create(r, Addition(r, e))
AddToCausalSet(r, e) ==
  /\ type = "CausalSet" /\ CanCall(r, "add")
  /\ Begin(r, <<Draft("content", "add", e, r)>>)

DeleteFromSet(r, e) ==
  LET old == For(ops, content[r].adds, e) IN
  /\ type = "MutableSet" /\ CanCall(r, "delete") /\ old # {}
  /\ Create(r, [Draft("content", "delete", e, r) EXCEPT !.of = old])
DeleteFromCausalSet(r, e) ==
  LET old == For(ops, content[r].current, e) IN
  /\ type = "CausalSet" /\ CanCall(r, "delete") /\ old # {}
  /\ Begin(r, Deletions(Draft("content", "delete", e, r), old))

\* uniqueTimestamp(): the clocks say anything, but no timestamp is repeated.
Timestamps ==
  1..setting.ops \ {op.time : op \in Range(ops) \cup UNION {Range(call[r].ready) : r \in Replicas}}
NextSequence(s) == s.sequence + 1
Update(r, e, seq, t) == [Draft("content", "update", e, r) EXCEPT !.seq = seq, !.time = t]
SetReference(r, e) ==
  /\ type = "MutableReference" /\ CanCall(r, "add")
  /\ \E t \in Timestamps : Create(r, Update(r, e, NextSequence(content[r]), t))
SetCausalReference(r, e) ==
  /\ type = "CausalReference" /\ CanCall(r, "add")
  /\ \E t \in Timestamps : Begin(r, <<Update(r, e, content[r].largest + 1, t)>>)

\* insertAt(): in an array without duplicates the element leaves its old place,
\* which is corrected for when that is before the new one.
PlacesAt(r)    == Places(type, ops, content[r].inserts)
OldPlace(r, e) == {k \in DOMAIN PlacesAt(r) : ops[PlacesAt(r)[k]].elem = e}
\* mutant: the old place of the element is not corrected for.
PlainIndex(r, e, idx) == idx
Index(r, e, idx) ==
  IF type \in Unique /\ \E k \in OldPlace(r, e) : k - 1 <= idx THEN idx + 1 ELSE idx
Neighbours(r, i) ==
  LET p == PlacesAt(r) IN
  <<IF i \in DOMAIN p THEN ops[p[i]].ord ELSE NoOrdinal,
    IF i < Len(p) THEN ops[p[i + 1]].ord ELSE NoOrdinal>>
Insertion(r, e, idx) ==
  LET n == Neighbours(r, Index(r, e, idx))
  IN  [Draft("content", "insert", e, r) EXCEPT !.ord = Between(n[1], n[2])]
OldInsertions(r, e) == IF type \in Unique THEN For(ops, content[r].inserts, e) ELSE {}
InsertIntoArray(r, e, idx) ==
  /\ type \in Arrays \ CausalTypes /\ CanCall(r, "add") /\ idx <= Len(PlacesAt(r))
  /\ ApplyNewOp(r, Insertion(r, e, idx))
  /\ call' = [call EXCEPT ![r].later = OldInsertions(r, e)]
InsertIntoCausalArray(r, e, idx) ==
  /\ type \in Arrays \cap CausalTypes /\ CanCall(r, "add") /\ idx <= Len(PlacesAt(r))
  /\ Authorize(r, [Idle EXCEPT !.todo = <<Insertion(r, e, idx)>>, !.later = OldInsertions(r, e)])

\* The old insertions are deleted when the new one is in.
\* mutant: what is deleted is what there is by then.
MovedAway(r) == For(ops, content[r].inserts, ops[CHOOSE i \in call[r].later : TRUE].elem)
Moved(r) == call[r].later
Left(r) == call[r].todo = <<>> /\ call[r].ready = <<>> /\ call[r].later # {}
Deletion(r, S) == [Draft("content", "delete", ops[CHOOSE i \in S : TRUE].elem, r) EXCEPT !.of = S]
DeleteOld(r) ==
  /\ type = "MutableArrayUnique" /\ Left(r)
  /\ ApplyNewOp(r, Deletion(r, Moved(r))) /\ call' = [call EXCEPT ![r] = Idle]
DeleteOldCausal(r) ==
  /\ type = "CausalArrayUnique" /\ Left(r)
  /\ \E i \in call[r].later :
       Authorize(r, [call[r] EXCEPT !.todo = <<Deletion(r, {i})>>, !.later = @ \ {i}])

\* deleteAt(): one insertion with that element and ordinal, or all the
\* insertions of the element when there are no duplicates.
InsertionsAt(r, idx) ==
  LET at   == PlacesAt(r)[idx]
      same == For(ops, content[r].inserts, ops[at].elem)
  IN  IF type \in Unique THEN {same} ELSE {{i} : i \in {i \in same : ops[i].ord = ops[at].ord}}
DeleteFromArray(r, idx) ==
  /\ type \in Arrays \ CausalTypes /\ CanCall(r, "delete") /\ idx \in DOMAIN PlacesAt(r)
  /\ \E S \in InsertionsAt(r, idx) : Create(r, Deletion(r, S))
CausalDeletions(r, S) == Deletions(Deletion(r, S), S)
DeleteFromCausalArray(r, idx) ==
  /\ type \in Arrays \cap CausalTypes /\ CanCall(r, "delete") /\ idx \in DOMAIN PlacesAt(r)
  /\ \E S \in InsertionsAt(r, idx) : Begin(r, CausalDeletions(r, S))

\* The administrator changes the writers.
AddWriter(e) ==
  /\ CanCall(Admin, "writers") /\ setting.writers /\ e # Admin
  /\ Begin(Admin, <<Draft("members", "add", e, Admin)>>)
DeleteWriter(e) ==
  LET old == For(ops, members[Admin].current, e) IN
  /\ CanCall(Admin, "writers") /\ setting.writers /\ old # {}
  /\ Begin(Admin, Deletions(Draft("members", "delete", e, Admin), old))

-----------------------------------------------------------------------------
(* What happens by itself.                                                  *)

\* Another replica's op arrives, when those it depends on are here.
Deliver(r) ==
  \E q \in Replicas : \E o \in has[q] \ has[r] :
    /\ ops[o].prev \cup ops[o].causal \cup ops[o].of \subseteq has[r] /\ Accepted(ops[o])
    /\ Apply(r, ops, <<ops[o]>>)
    /\ UNCHANGED call

\* The invalidations of the store: what is in the past of a deletion is spared.
Invalidates(o) == ops[o].kind = "delete" /\ (ops[o].obj = "members" \/ IsCausal)
\* mutant: only what a deletion comes right after is spared.
SparedHeads(d, o) == o \in ops[d].prev
Spared(d, o) == o \in Past(d)
IsStruck(r, o) ==
  \/ o \in struck
  \/ ops[o].causal \cap undone[r] # {}
  \/ \E d \in has[r] \ undone[r] :
       Invalidates(d) /\ ops[d].of \cap ops[o].causal # {} /\ ~ Spared(d, o)
ToCascade(r) == {o \in has[r] : (o \in undone[r]) # IsStruck(r, o)}
Cascade(r) ==
  \E o \in ToCascade(r) :
    LET valid == o \in undone[r]
        now   == IF valid THEN undone[r] \ {o} ELSE undone[r] \cup {o}
        mutated(obj, t, s) ==
          IF ops[o].obj = obj THEN Mutate(t, ops, s, o, valid, has[r] \ now) ELSE s IN
    /\ undone'  = [undone EXCEPT ![r] = now]
    /\ members' = [members EXCEPT ![r] = mutated("members", "CausalSet", @)]
    /\ content' = [content EXCEPT ![r] = mutated("content", type, @)]
    /\ UNCHANGED <<setting, ops, struck, has, call>>

\* A deletion in the writers' set is undone for a reason of its own.
Strike ==
  /\ setting.strikes /\ struck = {}
  /\ \E o \in DOMAIN ops : ops[o].obj = "members" /\ ops[o].kind = "delete" /\ struck' = {o}
  /\ UNCHANGED <<setting, ops, replicas, call>>

Next ==
  \/ \E r \in Replicas :
       \/ \E e \in Elems : \/ AddToGrowOnlySet(r, e) \/ AddToSet(r, e) \/ AddToCausalSet(r, e)
                          \/ DeleteFromSet(r, e) \/ DeleteFromCausalSet(r, e)
                          \/ SetReference(r, e) \/ SetCausalReference(r, e)
       \/ \E e \in Elems, idx \in 0..setting.ops :
            InsertIntoArray(r, e, idx) \/ InsertIntoCausalArray(r, e, idx)
       \/ \E idx \in 1..setting.ops : DeleteFromArray(r, idx) \/ DeleteFromCausalArray(r, idx)
       \/ DeleteOld(r) \/ DeleteOldCausal(r) \/ AuthorizeNext(r) \/ ApplyPrepared(r)
       \/ Deliver(r) \/ Cascade(r)
  \/ \E e \in Replicas : AddWriter(e) \/ DeleteWriter(e)
  \/ Strike

Spec == Init /\ [][Next]_vars

-----------------------------------------------------------------------------
(* Properties.                                                              *)

\* The latest of a set of updates.
Latest(S) == CHOOSE i \in S : \A j \in S \ {i} : SigLess(ops[j], ops[i])

\* Type and ops applied determine what a replica shows, whatever the order they
\* came in and whatever was undone and redone meanwhile: two replicas that have
\* the same ops show the same.  The sets and arrays hold what was added and not
\* deleted, a reference its latest valid update.
ContentsAreTheOps ==
  \A r \in Replicas :
    LET own     == {i \in has[r] \ undone[r] : ops[i].obj = "content"}
        deleted == UNION {ops[i].of : i \in own}
        left    == {i \in own \ deleted : ops[i].kind \in {"add", "insert", "update"}}
    IN  Shown(type, ops, content[r]) =
          CASE type \in Arrays     -> Elements(ops, Places(type, ops, left))
            [] type \in References -> IF left = {} THEN NoValue ELSE ops[Latest(left)].elem
            [] OTHER               -> {ops[i].elem : i \in left}

\* An element is inserted where it was asked for (insertAt, push), for every
\* array the replicas can get to, every element and index.  Left out are the
\* places between two elements with the same ordinal, and a push of an element
\* that an array without duplicates already has.
InsertedInPlace ==
  type \in Arrays => \A r \in Replicas :
    LET shown == Elements(ops, PlacesAt(r)) IN \A e \in Elems :
    LET rest == IF type \in Unique THEN SelectSeq(shown, LAMBDA f : f # e) ELSE shown
        left == content[r].inserts \ OldInsertions(r, e)
    IN \A idx \in 0..Len(rest) :
         LET n   == Neighbours(r, Index(r, e, idx))
             new == Append(ops, Insertion(r, e, idx))
         IN  n[1] # n[2] \/ n[1] = NoOrdinal =>
               Elements(new, Places(type, new, left \cup {Len(new)})) = InsertAt(rest, idx + 1, e)

\* A move in an array without duplicates never makes the array shorter, not
\* even when the old place is given up (the comment in insertManyAt).
MovesKeepElements ==
  [][\A r \in Replicas : call[r].later # {} /\ has[r] # has'[r] /\ call'[r] = Idle =>
       ToSet(Shown(type, ops, content[r])) \subseteq ToSet(Shown(type, ops', content'[r]))]_vars

\* Every op that the API produces is accepted wherever it arrives: what was
\* authorized is what is sent, whatever came in between.
AcceptedEverywhere == \A o \in DOMAIN ops : Accepted(ops[o])

\* Where the cascades are over, an op of someone other than the administrator is
\* in effect exactly if the addition of him that he attested was there when he
\* made it, and every removal of that addition that is in effect came after it
\* (the comment on CausalSet).
WritersOnly ==
  setting.writers => \A r \in Replicas : ToCascade(r) = {} =>
    \A o \in has[r] : ops[o].obj = "content" /\ ops[o].author # Admin =>
      (o \notin undone[r] <=>
        \E a \in ops[o].causal : \E w \in ops[a].causal :
          /\ ops[w].elem = ops[o].author
          /\ \A d \in has[r] \ undone[r] :
               ops[d].obj = "members" /\ w \in ops[d].of => a \in Past(d) /\ d \notin Past(a))

=============================================================================
