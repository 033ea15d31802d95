----------------------------- MODULE DedupEngine -----------------------------
(***************************************************************************)
(* The deduplication store: process_file cuts a file into chunks where its *)
(* content says so, and the callback looks each chunk up and adds it when  *)
(* it is new.  Two threads do so with the same file.                       *)
(*                                                                         *)
(* A read that meets the end of the file leaves the stream failed: the     *)
(* seek back to the boundary does nothing, and the loop ends.  A look-up   *)
(* that finds a chunk counts a reference to it; the insert of one that is  *)
(* there by now is ignored, under another lock.  Any statement may fail,   *)
(* all of them if the database did not open, and nobody looks.             *)
(*                                                                         *)
(* The content of the file repeats after some bytes: chunks of one size    *)
(* that begin as many periods apart have one hash.                         *)
(***************************************************************************)
EXTENDS Integers, FiniteSets

CONSTANTS
  Threads,
  MinChunk,   (* MIN_CHUNK                                                  *)
  MaxChunk,   (* MAX_CHUNK                                                  *)
  MaxFile     (* bound: the length of the file                              *)

VARIABLES
  length,     (* of the file                                                *)
  period,     (* after which its content repeats                            *)
  cuts,       (* where its content makes a boundary                         *)
  reader,     (* thread to its place, total_read, and the chunk in hand     *)
  refs,       (* chunks: hash to ref_count                                  *)
  kept,       (* history: thread to the chunks it looked up, and added if   *)
              (* they were missing                                          *)
  clash,      (* history: hashes missed by two threads at a time            *)
  unwritten   (* history: hashes of which a statement failed                *)

dedupVars == <<length, period, cuts, reader, refs, kept, clash, unwritten>>

(* hash_chunk().                                                           *)
Hash(c) == <<c[1] % period, c[2] - c[1]>>

Init ==
  /\ length \in {0, MaxChunk, MaxFile}
  /\ period \in {MinChunk, MaxFile}
  /\ cuts \in SUBSET (1..(length - 1))
  /\ \A i \in 1..(length - 1 - period) : i \in cuts <=> i + period \in cuts
  /\ reader = [t \in Threads |-> [at |-> "read", total |-> 0, chunk |-> <<>>,
                                  failed |-> FALSE]]
  /\ refs = [c \in {} |-> 0]
  /\ kept = [t \in Threads |-> {}]
  /\ clash = {} /\ unwritten = {}

Least(S) == CHOOSE x \in S : \A y \in S : x <= y

(* The end of the chunk that begins at total, of which a read gave bytes.  *)
Boundary(total, bytes) ==
  LET found == {i \in cuts : total + MinChunk <= i /\ i < total + bytes}
  IN  IF found = {} THEN total + bytes ELSE Least(found)

Goto(t, place) == reader' = [reader EXCEPT ![t].at = place]

-----------------------------------------------------------------------------
(* Mutation: what follows a boundary is not read again.                    *)
ReadChunkSkips(t) ==
  LET r == reader[t]
      bytes == IF length - r.total < MaxChunk THEN length - r.total
               ELSE MaxChunk
      end == Boundary(r.total, bytes)
  IN  /\ r.at = "read"
      /\ reader' = [reader EXCEPT ![t] =
           IF r.failed \/ bytes = 0 THEN [r EXCEPT !.at = "done"]
           ELSE [at |-> "lookup", total |-> r.total + bytes,
                 chunk |-> <<r.total, end>>, failed |-> bytes < MaxChunk]]
      /\ UNCHANGED <<length, period, cuts, refs, kept, clash, unwritten>>

-----------------------------------------------------------------------------
(* One turn of the loop of process_file(), up to the callback.             *)
ReadChunk(t) ==
  LET r == reader[t]
      bytes == IF length - r.total < MaxChunk THEN length - r.total
               ELSE MaxChunk
      end == Boundary(r.total, bytes)
  IN  /\ r.at = "read"
      /\ reader' = [reader EXCEPT ![t] =
           IF r.failed \/ bytes = 0 THEN [r EXCEPT !.at = "done"]
           ELSE [at |-> "lookup", total |-> end, chunk |-> <<r.total, end>>,
                 failed |-> bytes < MaxChunk]]
      /\ UNCHANGED <<length, period, cuts, refs, kept, clash, unwritten>>

(* lookup(), by the callback: finding and counting are under one lock.     *)
Lookup(t) ==
  LET c == reader[t].chunk
      h == Hash(c)
      keeps == kept' = [kept EXCEPT ![t] = @ \cup {c}] /\ Goto(t, "read")
  IN  /\ reader[t].at = "lookup"
      /\ \/ /\ h \in DOMAIN refs
            /\ refs' = [refs EXCEPT ![h] = @ + 1] /\ keeps
            /\ UNCHANGED <<clash, unwritten>>
         \/ /\ h \in DOMAIN refs                \* the UPDATE fails
            /\ unwritten' = unwritten \cup {h} /\ keeps
            /\ UNCHANGED <<refs, clash>>
         \/ /\ unwritten' = IF h \in DOMAIN refs  \* the SELECT fails
                            THEN unwritten \cup {h} ELSE unwritten
            /\ clash' = IF \E u \in Threads : /\ reader[u].at = "add"
                                              /\ Hash(reader[u].chunk) = h
                        THEN clash \cup {h} ELSE clash
            /\ Goto(t, "add")
            /\ UNCHANGED <<refs, kept>>
      /\ UNCHANGED <<length, period, cuts>>

(* add_chunk().                                                            *)
AddChunk(t) ==
  LET c == reader[t].chunk
      h == Hash(c)
  IN  /\ reader[t].at = "add"
      /\ \/ /\ refs' = IF h \in DOMAIN refs THEN refs
                       ELSE [g \in DOMAIN refs \cup {h} |->
                               IF g = h THEN 1 ELSE refs[g]]
            /\ UNCHANGED unwritten
         \/ unwritten' = unwritten \cup {h} /\ UNCHANGED refs
      /\ kept' = [kept EXCEPT ![t] = @ \cup {c}]
      /\ Goto(t, "read")
      /\ UNCHANGED <<length, period, cuts, clash>>

Next == \E t \in Threads : ReadChunk(t) \/ Lookup(t) \/ AddChunk(t)

Spec == Init /\ [][Next]_dedupVars

-----------------------------------------------------------------------------
TypeOK ==
  /\ \A t \in Threads :
       /\ reader[t].at \in {"read", "lookup", "add", "done"}
       /\ reader[t].total \in 0..length
  /\ \A h \in DOMAIN refs : refs[h] \in Nat \ {0}

(* A hash never has more references than it was looked up for a chunk, in  *)
(* one place of the file or several, and by threads that both process it,  *)
(* and exactly as many unless two threads missed it at a time or one of    *)
(* its statements failed.  The chunks of a file that has been processed    *)
(* are the whole file, but for what follows a boundary found in its last,  *)
(* short read.                                                             *)
Keepings(h) ==
  UNION {{t} \X {c \in kept[t] : Hash(c) = h} : t \in Threads}

NothingIsUncounted ==
  /\ \A h \in DOMAIN refs : refs[h] <= Cardinality(Keepings(h))
  /\ \A t \in Threads : \A c \in kept[t] :
       LET h == Hash(c)
       IN  \/ h \in clash \cup unwritten
           \/ h \in DOMAIN refs /\ refs[h] = Cardinality(Keepings(h))
  /\ \A t \in Threads : reader[t].at = "done" =>
       LET covered == UNION {(c[1] + 1)..c[2] : c \in kept[t]}
           lost == (1..length) \ covered
       IN  lost # {} =>
             /\ length - reader[t].total < MaxChunk
             /\ reader[t].total \in cuts
             /\ lost = (reader[t].total + 1)..length
=============================================================================
