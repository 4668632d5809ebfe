------------------------------ MODULE ListSearch ------------------------------
(***************************************************************************)
(* The search in a list of jobs (packages/root/src/data-search.ts,         *)
(* PowerSearch.search over a ListIterator): the ids are read once, and     *)
(* the jobs in chunks until enough match.                                  *)
(*                                                                         *)
(* Abstracted: the expression is the set of jobs it matches and the set of *)
(* those it matches once they were removed: their empty HGETALL is still   *)
(* made a job without data and evaluated.                                  *)
(***************************************************************************)
EXTENDS JobLists

CONSTANTS
  Matching,     \* the jobs the expression matches
  MatchingGone, \* the jobs it matches once they were removed
  ScanCount,    \* scanCount
  Enough,       \* offset + limit
  MaxErrors     \* bound: commands of a pipeline that fail

ASSUME ListSearchAssumption ==
  Matching \subseteq Job /\ MatchingGone \subseteq Job /\ ScanCount \in Nat \ {0} /\ Enough \in Nat \ {0} /\ MaxErrors \in Nat

VARIABLES
  search,  \* where the search is: the ids, the cursor and the jobs found
  errors   \* what is left of the bound

searchVars == <<search, errors>>

NoSearch == [pc |-> "idle", ids |-> <<>>, cursor |-> 0, acc |-> <<>>]

\* LRANGE: the ids, once.
ReadIds(q, s) ==
  /\ search = NoSearch
  /\ search' = [search EXCEPT !.pc = "reads", !.ids = lists[q][s]]
  /\ UNCHANGED errors

\* _nextChunk
Chunk == Slice(search.ids, search.cursor, ScanCount)

\* WRONG: the cursor goes on by the size of a chunk and one.
AdvancedOver(n) == search.cursor + n + 1

\* WRONG: only a whole chunk counts.
AdvancedByChunks(n) == IF n = ScanCount THEN search.cursor + n ELSE search.cursor

\* _incCursor: by the jobs that could be read.
Advanced(n) == search.cursor + n

Matched == (Matching \ gone) \cup (MatchingGone \cap gone)

\* A pipeline of HGETALLs, of which some fail: the others are looked at in their order, until
\* there is enough.
ReadChunk ==
  /\ search.pc = "reads" /\ Chunk # <<>>
  /\ \E failed \in SUBSET ToSet(Chunk) :
       LET read == Among(Chunk, ToSet(Chunk) \ failed)
           acc == Slice(search.acc \o Among(read, Matched), 0, Enough)
       IN  /\ Cardinality(failed) <= errors
           /\ errors' = errors - Cardinality(failed)
           /\ search' = [search EXCEPT !.cursor = Advanced(Len(read)), !.acc = acc,
                                       !.pc = IF Len(acc) >= Enough THEN "done" ELSE "reads"]

\* The pipeline fails as a whole: the search ends with what it has.
ChunkFails ==
  /\ search.pc = "reads" /\ Chunk # <<>> /\ errors > 0
  /\ errors' = errors - 1
  /\ search' = [search EXCEPT !.pc = "done"]

\* The ids are exhausted.
EndOfIds ==
  /\ search.pc = "reads" /\ Chunk = <<>>
  /\ search' = [search EXCEPT !.pc = "done"]
  /\ UNCHANGED errors

SearchInit == search = NoSearch /\ errors = MaxErrors

SearchNext ==
  \/ \E q \in ToSet(Queue), s \in ToSet(Status) : ReadIds(q, s)
  \/ ReadChunk \/ ChunkFails \/ EndOfIds

-----------------------------------------------------------------------------
(* Properties *)

SearchTypeOK ==
  /\ search \in [pc : {"idle", "reads", "done"}, ids : Seq(Job), cursor : Nat, acc : Seq(Job)]
  /\ errors \in Nat

Exact(s) == Among(s, Matching)

\* A search without errors gives the matching jobs of the list as it was, in their order, up to
\* as many as were asked for; only those that were removed meanwhile may be left out, or be there
\* though they did not match.
SearchExact ==
  search.pc = "done" /\ errors = MaxErrors =>
    IF gone = {} THEN search.acc = Slice(Exact(search.ids), 0, Enough)
    ELSE /\ IsInjective(search.acc)
         /\ ToSet(search.acc) \subseteq ToSet(search.ids) \cap (Matching \cup gone)
         /\ Len(search.acc) < Enough => ToSet(Exact(search.ids)) \ gone \subseteq ToSet(search.acc)
=============================================================================
