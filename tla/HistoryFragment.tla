--------------------------- MODULE HistoryFragment ---------------------------
(***************************************************************************)
(* A history fragment (src/data/history/HistoryFragment.ts): a set of      *)
(* operation headers, plus five indexes that add() and remove() maintain   *)
(* incrementally. The synchronizer keeps four of them per object and       *)
(* derives everything it asks its peers for from the indexes, so they must *)
(* never drift from the contents, whatever the order in which headers come *)
(* and go.                                                                 *)
(*                                                                         *)
(* Headers are immutable and carry the hashes of their predecessors; since *)
(* those enter the header's own hash, no header precedes itself.           *)
(***************************************************************************)
EXTENDS Naturals, FiniteSets

CONSTANTS
    Header,     \* header hashes
    Op,         \* operation hashes
    prevOf,     \* prevOf[h]: OpHeader.prevOpHeaders of header h
    opOf        \* opOf[h]: OpHeader.opHash of header h

ASSUME HeaderAssumption ==
    /\ prevOf \in [Header -> SUBSET Header]
    /\ opOf \in [Header -> Op]
    /\ \A h \in Header : h \notin prevOf[h]

VARIABLES
    contents,
    terminalOpHeaders,
    missingPrevOpHeaders,
    roots,
    opHeadersForOp,
    nextOpHeaders,
    toRemove        \* headers the running removeNonTerminalOps() loop has left

indexes == <<terminalOpHeaders, missingPrevOpHeaders, roots, opHeadersForOp,
             nextOpHeaders>>
fragmentVars == <<contents, indexes, toRemove>>

FragmentTypeOK ==
    /\ contents \subseteq Header
    /\ terminalOpHeaders \subseteq Header
    /\ missingPrevOpHeaders \subseteq Header
    /\ roots \subseteq Header
    /\ opHeadersForOp \in [Op -> SUBSET Header]
    /\ nextOpHeaders \in [Header -> SUBSET Header]
    /\ toRemove \subseteq Header

FragmentInit ==
    /\ contents = {}
    /\ terminalOpHeaders = {}
    /\ missingPrevOpHeaders = {}
    /\ roots = {}
    /\ opHeadersForOp = [o \in Op |-> {}]
    /\ nextOpHeaders = [h \in Header |-> {}]
    /\ toRemove = {}

-----------------------------------------------------------------------------
(* add(opHeader). A header that was missing is not terminal: something in  *)
(* the fragment already follows it. Its predecessors either are absent, and*)
(* become missing, or are present, and stop being terminal.                *)
NewPrevs(h) == {p \in prevOf[h] : p \notin contents}

MissingAfterAdd(h) == (missingPrevOpHeaders \ {h}) \cup NewPrevs(h)

TerminalAfterAddUnchecked(h) ==     \* mutant: no look at missingPrevOpHeaders
    (terminalOpHeaders \cup {h}) \ (prevOf[h] \ NewPrevs(h))

TerminalAfterAdd(h) ==
    (terminalOpHeaders \cup (IF h \in missingPrevOpHeaders THEN {} ELSE {h}))
        \ (prevOf[h] \ NewPrevs(h))

RootsAfterAdd(h) == IF prevOf[h] = {} THEN roots \cup {h} ELSE roots

Add(h) ==
    /\ toRemove = {}
    /\ h \notin contents
    /\ contents' = contents \cup {h}
    /\ opHeadersForOp' = [opHeadersForOp EXCEPT ![opOf[h]] = @ \cup {h}]
    /\ roots' = RootsAfterAdd(h)
    /\ missingPrevOpHeaders' = MissingAfterAdd(h)
    /\ terminalOpHeaders' = TerminalAfterAdd(h)
    /\ nextOpHeaders' =
         [p \in Header |-> IF p \in prevOf[h] THEN nextOpHeaders[p] \cup {h}
                                              ELSE nextOpHeaders[p]]
    /\ UNCHANGED toRemove

(* remove(opHeaderHash). Predecessors that nothing follows any more turn   *)
(* terminal when present and are no longer missing when absent.            *)
NextAfterRemoveKept(h) == nextOpHeaders      \* mutant: reverse mapping left

NextAfterRemove(h) ==
    [p \in Header |-> IF p \in prevOf[h] THEN nextOpHeaders[p] \ {h}
                                         ELSE nextOpHeaders[p]]

Unfollowed(h) == {p \in prevOf[h] : NextAfterRemove(h)[p] = {}}

TerminalAfterRemoveKept(h) ==       \* mutant: the header itself stays
    terminalOpHeaders \cup (Unfollowed(h) \cap contents)

TerminalAfterRemove(h) ==
    (terminalOpHeaders \ {h}) \cup (Unfollowed(h) \cap contents)

MissingAfterRemove(h) ==
    (IF nextOpHeaders[h] # {} THEN missingPrevOpHeaders \cup {h}
                              ELSE missingPrevOpHeaders)
        \ (Unfollowed(h) \ contents)

RemoveHeader(h) ==
    /\ contents' = contents \ {h}
    /\ opHeadersForOp' = [opHeadersForOp EXCEPT ![opOf[h]] = @ \ {h}]
    /\ roots' = IF prevOf[h] = {} THEN roots \ {h} ELSE roots
    /\ nextOpHeaders' = NextAfterRemove(h)
    /\ terminalOpHeaders' = TerminalAfterRemove(h)
    /\ missingPrevOpHeaders' = MissingAfterRemove(h)

RemoveOpHeader(h) ==
    /\ toRemove = {}
    /\ h \in contents
    /\ RemoveHeader(h)
    /\ UNCHANGED toRemove

(* removeNonTerminalOps(): the terminal set is copied once, then every     *)
(* other header is removed, one by one, while the live terminal set moves. *)
(* The loop runs to its end before anything else touches the fragment.     *)
NonTerminals == contents \ terminalOpHeaders

StartRemoveNonTerminalOps ==
    /\ toRemove = {}
    /\ NonTerminals # {}
    /\ toRemove' = NonTerminals
    /\ UNCHANGED <<contents, indexes>>

RemoveNonTerminalOp(h) ==
    /\ h \in toRemove
    /\ RemoveHeader(h)
    /\ toRemove' = toRemove \ {h}

FragmentNext ==
    \/ \E h \in Header : Add(h) \/ RemoveOpHeader(h) \/ RemoveNonTerminalOp(h)
    \/ StartRemoveNonTerminalOps

FragmentSpec == FragmentInit /\ [][FragmentNext]_fragmentVars

-----------------------------------------------------------------------------
(* What the indexes should be, computed from the contents alone.           *)
NextIn(S, h)  == {x \in S : h \in prevOf[x]}
TerminalOf(S) == {h \in S : NextIn(S, h) = {}}
MissingOf(S)  == {h \in Header \ S : NextIn(S, h) # {}}
RootsOf(S)    == {h \in S : prevOf[h] = {}}
HeadersForOp(S, o) == {h \in S : opOf[h] = o}

(* The successor index and the op index that remove() and the walks read   *)
(* are those of the contents, at every step of add() and remove().         *)
LookupIndexesExact ==
    /\ \A h \in Header : nextOpHeaders[h] = NextIn(contents, h)
    /\ \A o \in Op : opHeadersForOp[o] = HeadersForOp(contents, o)
    /\ roots = RootsOf(contents)

(* The frontier of the fragment, "a set of ops that takes the target from a*)
(* state that contains all the ops in missingPrevOpHeaders to a state that *)
(* contains all the ops in terminalOpHeaders": both ends are exactly those *)
(* of the contents although neither is ever recomputed from them.          *)
FrontierExact ==
    /\ terminalOpHeaders = TerminalOf(contents)
    /\ missingPrevOpHeaders = MissingOf(contents)

(* While removeNonTerminalOps() runs, what is neither removed nor left to  *)
(* remove is the terminal set it started from: no removal makes a later    *)
(* one wrong, and it ends with the terminal ops and nothing else.          *)
PruneKeepsTerminals ==
    /\ toRemove \subseteq contents
    /\ toRemove # {} => \A h \in contents \ toRemove : NextIn(contents, h) = {}

(* removeNonTerminalOps() neither loses a terminal op nor invents one: the *)
(* last removal leaves the fragment with pairwise unrelated ops, all       *)
(* terminal, which is what a state sent to a peer must be.                 *)
PruneEndsAtState ==
    [][toRemove # {} /\ toRemove' = {} => terminalOpHeaders' = contents']_fragmentVars

IndInv ==
    /\ FragmentTypeOK
    /\ LookupIndexesExact
    /\ FrontierExact
    /\ PruneKeepsTerminals
=============================================================================
