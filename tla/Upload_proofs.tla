--------------------------- MODULE Upload_proofs ---------------------------
(***************************************************************************)
(* What is proved of the resumable upload, for any files, tabs, threads,   *)
(* number of chunks and restarts: its types, and that a delivery is only   *)
(* registered by a thread that got every chunk of its file, though threads *)
(* merge the same chunks at the same time.  The argument is that a thread  *)
(* passes a position only after it has appended the chunk there; what      *)
(* others take from it stops it with FileNotFoundError.                    *)
(***************************************************************************)
EXTENDS Upload, SequenceTheorems, WellFoundedInduction, TLAPS

Merging == {"append", "unlink", "register"}

(* Chunk n of file f is somewhere in the merged file.                      *)
Has(f, n) == \E i \in DOMAIN target : target[i].file = f /\ target[i].n = n

(* A thread that merges has appended all chunks before its position, and   *)
(* the one at its position when it is about to unlink it.                  *)
MergeInv ==
    /\ \A t \in Thread : pc[t] \notin Merging => position[t] = 1
    /\ \A t \in Thread : pc[t] = "register" => position[t] = Chunks + 1
    /\ \A t \in Thread, n \in Number :
          pc[t] \in Merging /\ (n < position[t] \/ (pc[t] = "unlink" /\ n = position[t]))
              => Has(FileOf(t), n)

UploadInv == TypeOK /\ MergeInv /\ RegisteredHasAllChunks

-----------------------------------------------------------------------------
(* The file only grows.                                                    *)
LEMMA HasStays ==
    ASSUME target \in Seq([file : File, n : Number, whole : BOOLEAN]),
           target' = target \/ \E c \in [file : File, n : Number, whole : BOOLEAN] : target' = Append(target, c),
           NEW f, NEW n, Has(f, n)
    PROVE  Has(f, n)'
<1>1. PICK i \in DOMAIN target : target[i].file = f /\ target[i].n = n
  BY DEF Has
<1>2. i \in DOMAIN target' /\ target'[i] = target[i]
  BY <1>1
<1>3. QED
  BY <1>1, <1>2 DEF Has

(* The file grows by the chunk at its end.                                 *)
LEMMA HasAppended ==
    ASSUME target \in Seq([file : File, n : Number, whole : BOOLEAN]),
           NEW c \in [file : File, n : Number, whole : BOOLEAN], target' = Append(target, c)
    PROVE  Has(c.file, c.n)'
<1>1. Len(target) + 1 \in DOMAIN target' /\ target'[Len(target) + 1] = c
  OBVIOUS
<1>2. QED
  BY <1>1 DEF Has

Grows ==
    \/ target' = target
    \/ \E c \in [file : File, n : Number, whole : BOOLEAN] : target' = Append(target, c)

(* Thread t moves on, and what MergeInv says of it holds where it gets to. *)
LEMMA ThreadMoves ==
    ASSUME TypeOK, MergeInv, NEW t \in Thread, Grows,
           \A b \in Tab : opened[b] \in File => opened'[b] = opened[b],
           \A u \in Thread \ {t} : pc'[u] = pc[u] /\ position'[u] = position[u] /\ post'[u] = post[u],
           pc'[t] \notin Merging => position'[t] = 1,
           pc'[t] = "register" => position'[t] = Chunks + 1,
           \A n \in Number :
              pc'[t] \in Merging /\ (n < position'[t] \/ (pc'[t] = "unlink" /\ n = position'[t]))
                  => Has(FileOf(t), n)'
    PROVE  MergeInv'
<1>1. ASSUME NEW u \in Thread, u # t, NEW n \in Number,
             pc'[u] \in Merging, n < position'[u] \/ (pc'[u] = "unlink" /\ n = position'[u])
      PROVE  Has(FileOf(u), n)'
  <2>1. Has(FileOf(u), n)
    BY <1>1 DEF MergeInv
  <2>2. FileOf(u)' = FileOf(u)
    BY <1>1 DEF FileOf, TypeOK, Merging, Post
  <2>3. QED
    BY <2>1, <2>2, HasStays DEF TypeOK, Grows
<1>2. QED
  BY <1>1 DEF MergeInv

(* What is registered keeps its chunks.                                    *)
LEMMA RegisteredStays ==
    ASSUME TypeOK, RegisteredHasAllChunks, Grows,
           \A f \in File : rows'[f] > 0 => rows[f] > 0 \/ \A n \in Number : Has(f, n)
    PROVE  RegisteredHasAllChunks'
<1>1. ASSUME NEW f \in File, rows'[f] > 0, NEW n \in Number PROVE Has(f, n)'
  <2>1. Has(f, n)
    BY <1>1 DEF RegisteredHasAllChunks, Registered, Has
  <2>2. QED
    BY <2>1, HasStays DEF TypeOK, Grows
<1>2. QED
  BY <1>1 DEF RegisteredHasAllChunks, Registered, Has

-----------------------------------------------------------------------------
(* Types *)

Smaller == {p \in Nat \X Nat : p[1] < p[2]}

(* The next chunk to be sent exists.                                       *)
LEMMA HasLeast ==
    ASSUME NEW S, S \subseteq Nat, S # {}
    PROVE  \E n \in S : \A k \in S : n <= k
<1>1. IsWellFoundedOn({p \in Nat \X Nat : p[1] < p[2]}, Nat)
  BY NatLessThanWellFounded DEF OpToRel
<1>2. IsWellFoundedOn(Smaller, Nat)
  BY <1>1 DEF Smaller
<1>3. PICK n \in S : \A k \in S : ~ (<<k, n>> \in Smaller)
  BY <1>2, WFMin
<1>4. \A k \in S : ~(k < n)
  BY <1>3 DEF Smaller
<1>5. QED
  BY <1>4

LEMMA InitTypes == Init => TypeOK
<1> SUFFICES ASSUME Init PROVE TypeOK
  OBVIOUS
<1> USE ChunksAssumption, RestartsAssumption
<1>1. mark \in [Tab -> [Number -> {"pending", "tested", "sent", "done"}]]
  BY DEF Init
<1>2. chunk \in [File -> [Number -> {"none", "whole"} \union Thread]]
  BY DEF Init
<1>3. target \in Seq([file : File, n : Number, whole : BOOLEAN])
  BY DEF Init
<1>4. QED
  BY <1>1, <1>2, <1>3 DEF Init, TypeOK

(* One entry of a table of tables changes.                                 *)
LEMMA EntryChanges ==
    ASSUME NEW A, NEW B, NEW S, NEW m \in [A -> [B -> S]], NEW a \in A, NEW b \in B, NEW v \in S
    PROVE  [m EXCEPT ![a][b] = v] \in [A -> [B -> S]]
<1>1. [m[a] EXCEPT ![b] = v] \in [B -> S]
  OBVIOUS
<1>2. [m EXCEPT ![a][b] = v] = [m EXCEPT ![a] = [m[a] EXCEPT ![b] = v]]
  OBVIOUS
<1>3. QED
  BY <1>1, <1>2

(* A thread that answers is idle, and its tab knows.                       *)
LEMMA AnswerTypes ==
    ASSUME TypeOK, NEW t \in Thread, NEW from, NEW ok \in BOOLEAN, from # "idle", Answers(t, from, ok)
    PROVE  /\ opened' = opened /\ restarts' = restarts
           /\ mark' \in [Tab -> [Number -> {"pending", "tested", "sent", "done"}]]
           /\ failed' \subseteq Tab
           /\ pc' = [pc EXCEPT ![t] = "idle"]
           /\ post' = [post EXCEPT ![t] = Nobody]
           /\ position' = [position EXCEPT ![t] = 1]
<1>1. post[t] \in Post /\ post[t].tab \in Tab /\ post[t].n \in Number
  BY DEF Answers, TypeOK, Post
<1>2. /\ mark' = mark \/ mark' = [mark EXCEPT ![post[t].tab][post[t].n] = "done"]
      /\ failed' = failed \/ failed' = failed \union {post[t].tab}
  BY DEF Answers
<1>3. mark' \in [Tab -> [Number -> {"pending", "tested", "sent", "done"}]]
  <2> DEFINE Marks == {"pending", "tested", "sent", "done"}
  <2>1. mark \in [Tab -> [Number -> Marks]] /\ "done" \in Marks
    BY DEF TypeOK
  <2> HIDE DEF Marks
  <2>2. [mark EXCEPT ![post[t].tab][post[t].n] = "done"] \in [Tab -> [Number -> Marks]]
    BY <1>1, <2>1, EntryChanges
  <2>3. mark' \in [Tab -> [Number -> Marks]]
    BY <1>2, <2>1, <2>2
  <2>4. QED
    BY <2>3 DEF Marks
<1>4. QED
  BY <1>1, <1>2, <1>3 DEF Answers, TypeOK

Chunked == [Number -> {"none", "whole"} \union Thread]

(* Thread t is idle after the step, or where it was and with its post.     *)
LEMMA ThreadTypes ==
    ASSUME TypeOK, NEW t \in Thread, opened' = opened, restarts' = restarts,
           mark' \in [Tab -> [Number -> {"pending", "tested", "sent", "done"}]],
           failed' \subseteq Tab,
           NEW to \in {"idle", "create", "write", "count", "check2", "append", "unlink", "register"},
           pc' = [pc EXCEPT ![t] = to],
           \/ to = "idle" /\ post' = [post EXCEPT ![t] = Nobody]
           \/ to # "idle" /\ post' = post /\ pc[t] # "idle",
           NEW p \in 1..(Chunks + 1), position' = [position EXCEPT ![t] = p],
           to \in {"append", "unlink"} => p \in Number,
           chunk' \in [File -> Chunked], rows' \in [File -> Nat],
           target' \in Seq([file : File, n : Number, whole : BOOLEAN])
    PROVE  TypeOK'
<1>1. /\ pc' \in [Thread -> {"idle", "check1", "create", "write", "count", "check2",
                              "append", "unlink", "register"}]
      /\ post' \in [Thread -> Post \union {Nobody}]
      /\ position' \in [Thread -> 1..(Chunks + 1)]
  BY DEF TypeOK
<1>2. \A u \in Thread : pc'[u] # "idle" => post'[u] \in Post /\ opened'[post'[u].tab] \in File
  BY DEF TypeOK
<1>3. \A u \in Thread : pc'[u] \in {"append", "unlink"} => position'[u] \in Number
  BY DEF TypeOK
<1>4. QED
  BY <1>1, <1>2, <1>3 DEF TypeOK, Chunked

-----------------------------------------------------------------------------
(* Steps of a thread *)

\* A thread answers; what is registered by then is complete.
LEMMA AnswerStep ==
    ASSUME UploadInv, NEW t \in Thread, NEW from, from # "idle", NEW ok \in BOOLEAN,
           Answers(t, from, ok), chunk' \in [File -> Chunked], target' = target,
           rows' \in [File -> Nat],
           \A f \in File : rows'[f] > 0 => rows[f] > 0 \/ \A n \in Number : Has(f, n)
    PROVE  UploadInv'
<1>1. /\ opened' = opened /\ restarts' = restarts /\ failed' \subseteq Tab
      /\ mark' \in [Tab -> [Number -> {"pending", "tested", "sent", "done"}]]
      /\ pc' = [pc EXCEPT ![t] = "idle"] /\ post' = [post EXCEPT ![t] = Nobody]
      /\ position' = [position EXCEPT ![t] = 1]
  BY AnswerTypes DEF UploadInv
<1>2. TypeOK'
  <2>1. 1 \in 1..(Chunks + 1) /\ target' \in Seq([file : File, n : Number, whole : BOOLEAN])
    BY ChunksAssumption DEF UploadInv, TypeOK
  <2>2. QED
    BY <1>1, <2>1, ThreadTypes DEF UploadInv
<1>3. MergeInv'
  BY <1>1, ThreadMoves DEF UploadInv, TypeOK, Grows, Merging
<1>4. RegisteredHasAllChunks'
  BY RegisteredStays DEF UploadInv, Grows
<1>5. QED
  BY <1>2, <1>3, <1>4 DEF UploadInv

\* A thread goes on, and does not merge yet.
LEMMA GoesStep ==
    ASSUME UploadInv, NEW t \in Thread, NEW from, from \notin Merging \union {"idle"},
           NEW to \in {"create", "write", "count", "check2", "append"}, Goes(t, from, to),
           chunk' \in [File -> Chunked], UNCHANGED <<target, rows>>
    PROVE  UploadInv'
<1>1. /\ UNCHANGED <<opened, mark, failed, restarts, post, position>>
      /\ pc[t] = from /\ pc' = [pc EXCEPT ![t] = to]
  BY DEF Goes, tabVars
<1>2. position[t] = 1 /\ 1 \in Number /\ 1 \in 1..(Chunks + 1)
  BY <1>1, ChunksAssumption DEF UploadInv, MergeInv, Number
<1>3. position' = [position EXCEPT ![t] = 1]
  BY <1>1, <1>2 DEF UploadInv, TypeOK
<1>4. TypeOK'
  BY <1>1, <1>2, <1>3, ThreadTypes DEF UploadInv, TypeOK
<1>5. MergeInv'
  <2>1. pc'[t] = to /\ position'[t] = 1
    BY <1>1, <1>2 DEF UploadInv, TypeOK
  <2>2. QED
    BY <1>1, <2>1, ThreadMoves DEF UploadInv, TypeOK, Grows, Merging, Number
<1>6. RegisteredHasAllChunks'
  BY RegisteredStays DEF UploadInv, Grows
<1>7. QED
  BY <1>4, <1>5, <1>6 DEF UploadInv

\* The file a thread works for, and its chunk.
LEMMA ThreadFile ==
    ASSUME TypeOK, NEW t \in Thread, pc[t] # "idle"
    PROVE  FileOf(t) \in File /\ post[t].n \in Number
BY DEF TypeOK, FileOf, Post

LEMMA ConflictStep ==
    ASSUME UploadInv, NEW t \in Thread,
           CheckConflict(t, "check1", "create") \/ CheckConflict(t, "check2", "append")
    PROVE  UploadInv'
<1>1. PICK from \in {"check1", "check2"}, to \in {"create", "append"} : CheckConflict(t, from, to)
  OBVIOUS
<1>2. pc[t] = from /\ UNCHANGED <<target, rows>>
  BY <1>1 DEF CheckConflict
<1>3. CASE DeliveryExists
  <2>1. Answers(t, from, FALSE) /\ RemoveChunks(FileOf(t))
    BY <1>1, <1>3 DEF CheckConflict
  <2>2. FileOf(t) \in File
    BY <1>2, ThreadFile DEF UploadInv
  <2>3. chunk' \in [File -> Chunked]
    <3>1. [n \in Number |-> "none"] \in Chunked
      BY DEF Chunked
    <3>2. chunk' = [chunk EXCEPT ![FileOf(t)] = [n \in Number |-> "none"]]
      BY <2>1 DEF RemoveChunks
    <3>3. QED
      BY <2>2, <3>1, <3>2 DEF UploadInv, TypeOK, Chunked
  <2>4. QED
    BY <1>2, <2>1, <2>3, AnswerStep DEF UploadInv, TypeOK
<1>4. CASE ~DeliveryExists
  <2>1. Goes(t, from, to) /\ chunk' = chunk
    BY <1>1, <1>4 DEF CheckConflict
  <2>2. QED
    BY <1>2, <2>1, GoesStep DEF UploadInv, TypeOK, Chunked, Merging
<1>5. QED
  BY <1>3, <1>4

\* One chunk of the thread's file changes.
LEMMA ChunkChanges ==
    ASSUME TypeOK, NEW t \in Thread, pc[t] # "idle", NEW n \in Number,
           NEW c \in {"none", "whole"} \union Thread
    PROVE  [chunk EXCEPT ![FileOf(t)][n] = c] \in [File -> Chunked]
<1> DEFINE C == {"none", "whole"} \union Thread
<1>1. chunk \in [File -> [Number -> C]] /\ c \in C
  BY DEF TypeOK
<1>2. Chunked = [Number -> C]
  BY DEF Chunked
<1> HIDE DEF C
<1>3. QED
  BY <1>1, <1>2, EntryChanges, ThreadFile

LEMMA StoreStep ==
    ASSUME UploadInv, NEW t \in Thread, CreateChunk(t) \/ WriteChunk(t)
    PROVE  UploadInv'
<1>1. CASE CreateChunk(t)
  <2>1. pc[t] = "create" /\ UNCHANGED <<target, rows>>
    BY <1>1 DEF CreateChunk
  <2>2. CASE Goes(t, "create", "write") /\ chunk' = [chunk EXCEPT ![FileOf(t)][post[t].n] = t]
    <3>1. chunk' \in [File -> Chunked]
      BY <2>1, <2>2, ChunkChanges, ThreadFile DEF UploadInv
    <3>2. QED
      BY <2>1, <2>2, <3>1, GoesStep DEF Merging
  <2>3. CASE Goes(t, "create", "count") /\ chunk' = chunk
    BY <2>1, <2>3, GoesStep DEF UploadInv, TypeOK, Chunked, Merging
  <2>4. QED
    BY <1>1, <2>2, <2>3 DEF CreateChunk
<1>2. CASE WriteChunk(t)
  <2>1. /\ pc[t] = "write" /\ Goes(t, "write", "count") /\ UNCHANGED <<target, rows>>
        /\ chunk' = [chunk EXCEPT ![FileOf(t)][post[t].n] = IF @ = t THEN "whole" ELSE @]
    BY <1>2 DEF WriteChunk, Goes
  <2> DEFINE old == chunk[FileOf(t)][post[t].n]
             new == IF old = t THEN "whole" ELSE old
  <2>2. new \in {"none", "whole"} \union Thread
    BY <2>1, ThreadFile DEF UploadInv, TypeOK
  <2>3. chunk' = [chunk EXCEPT ![FileOf(t)][post[t].n] = new]
    BY <2>1
  <2> HIDE DEF old, new
  <2>4. TypeOK /\ pc[t] # "idle" /\ post[t].n \in Number
    BY <2>1, ThreadFile DEF UploadInv
  <2>5. [chunk EXCEPT ![FileOf(t)][post[t].n] = new] \in [File -> Chunked]
    BY <2>2, <2>4, ChunkChanges
  <2>6. chunk' \in [File -> Chunked]
    BY <2>3, <2>5
  <2>7. QED
    BY <2>1, <2>6, GoesStep DEF Merging
<1>3. QED
  BY <1>1, <1>2

LEMMA CountStep ==
    ASSUME UploadInv, NEW t \in Thread, CountChunks(t)
    PROVE  UploadInv'
<1>1. UNCHANGED <<chunk, target, rows>> /\ (Goes(t, "count", "check2") \/ Answers(t, "count", TRUE))
  BY DEF CountChunks, storeVars
<1>2. chunk' \in [File -> Chunked] /\ rows' \in [File -> Nat]
  BY <1>1 DEF UploadInv, TypeOK, Chunked
<1>3. CASE Goes(t, "count", "check2")
  BY <1>1, <1>2, <1>3, GoesStep DEF Merging
<1>4. CASE Answers(t, "count", TRUE)
  BY <1>1, <1>2, <1>4, AnswerStep
<1>5. QED
  BY <1>1, <1>3, <1>4

\* A thread that merges, from one place to the next.
LEMMA MergeStep ==
    ASSUME UploadInv, NEW t \in Thread, pc[t] \in {"append", "unlink"},
           UNCHANGED <<tabVars, post, restarts, rows>>, Grows,
           NEW to \in Merging, pc' = [pc EXCEPT ![t] = to],
           NEW p \in 1..(Chunks + 1), position' = [position EXCEPT ![t] = p],
           chunk' \in [File -> Chunked],
           to \in {"append", "unlink"} => p \in Number,
           to = "register" => p = Chunks + 1,
           \A n \in Number : n < p \/ (to = "unlink" /\ n = p) => Has(FileOf(t), n)'
    PROVE  UploadInv'
<1>1. UNCHANGED <<opened, mark, failed>>
  BY DEF tabVars
<1>2. target' \in Seq([file : File, n : Number, whole : BOOLEAN])
  <2>1. target \in Seq([file : File, n : Number, whole : BOOLEAN])
    BY DEF UploadInv, TypeOK
  <2>2. ASSUME NEW c \in [file : File, n : Number, whole : BOOLEAN], target' = Append(target, c)
        PROVE  target' \in Seq([file : File, n : Number, whole : BOOLEAN])
    BY <2>1, <2>2, AppendProperties
  <2>3. QED
    BY <2>1, <2>2 DEF Grows
<1>3. TypeOK'
  BY <1>1, <1>2, ThreadTypes DEF UploadInv, TypeOK, Merging
<1>4. pc'[t] = to /\ position'[t] = p
  BY DEF UploadInv, TypeOK
<1>5. MergeInv'
  BY <1>1, <1>4, ThreadMoves DEF UploadInv, TypeOK
<1>6. RegisteredHasAllChunks'
  BY RegisteredStays DEF UploadInv
<1>7. QED
  BY <1>3, <1>5, <1>6 DEF UploadInv

LEMMA AppendStep ==
    ASSUME UploadInv, NEW t \in Thread, AppendChunk(t)
    PROVE  UploadInv'
<1>1. pc[t] = "append" /\ chunk' = chunk /\ rows' = rows
  BY DEF AppendChunk
<1>2. PICK n \in Number, f \in File : n = position[t] /\ f = FileOf(t)
  BY <1>1, ThreadFile DEF UploadInv, TypeOK
<1>3. chunk' \in [File -> Chunked] /\ rows' \in [File -> Nat]
  BY <1>1 DEF UploadInv, TypeOK, Chunked
<1>4. CASE chunk[FileOf(t)][position[t]] # "none"
  <2> DEFINE w == chunk[f][n] = "whole"
  <2>0. w \in BOOLEAN
    OBVIOUS
  <2>1. Goes(t, "append", "unlink") /\ target' = Append(target, [file |-> f, n |-> n, whole |-> w])
    BY <1>2, <1>4 DEF AppendChunk
  <2> HIDE DEF w
  <2>2. PICK c \in [file : File, n : Number, whole : BOOLEAN] :
             c.file = f /\ c.n = n /\ target' = Append(target, c)
    BY <2>0, <2>1
  <2>3. target \in Seq([file : File, n : Number, whole : BOOLEAN]) /\ Grows
    BY <2>2 DEF UploadInv, TypeOK, Grows
  <2>4. opened' = opened /\ FileOf(t)' = FileOf(t)
    BY <2>1 DEF Goes, tabVars, FileOf
  <2>5. Has(f, n)'
    BY <2>2, <2>3, HasAppended
  <2>6. ASSUME NEW k \in Number, k < n PROVE Has(f, k)'
    <3>1. Has(f, k)
      BY <1>1, <1>2, <2>6 DEF UploadInv, MergeInv, Merging
    <3>2. QED
      BY <2>3, <3>1, HasStays DEF Grows
  <2>7. ASSUME NEW k \in Number, k < n \/ k = n PROVE Has(FileOf(t), k)'
    <3>1. Has(f, k)'
      BY <2>5, <2>6, <2>7
    <3>2. QED
      BY <1>2, <2>4, <3>1 DEF Has
  <2>8. /\ position' = [position EXCEPT ![t] = n] /\ pc' = [pc EXCEPT ![t] = "unlink"]
        /\ UNCHANGED <<tabVars, post, restarts>>
    BY <1>2, <2>1 DEF Goes, UploadInv, TypeOK
  <2>9. n \in 1..(Chunks + 1)
    BY <1>2 DEF UploadInv, TypeOK
  <2>10. QED
    BY <1>1, <1>3, <2>3, <2>7, <2>8, <2>9, MergeStep DEF Merging
<1>5. CASE chunk[FileOf(t)][position[t]] = "none"
  <2>1. Answers(t, "append", FALSE) /\ target' = target
    BY <1>5 DEF AppendChunk, WhenMissing
  <2>2. QED
    BY <1>1, <1>3, <2>1, AnswerStep
<1>6. QED
  BY <1>4, <1>5

LEMMA UnlinkStep ==
    ASSUME UploadInv, NEW t \in Thread, UnlinkChunk(t)
    PROVE  UploadInv'
<1> DEFINE n == position[t]
<1>1. pc[t] = "unlink" /\ target' = target /\ rows' = rows
  BY DEF UnlinkChunk
<1>2. n \in Number /\ FileOf(t) \in File
  BY <1>1, ThreadFile DEF UploadInv, TypeOK
<1>3. CASE chunk[FileOf(t)][n] = "none"
  <2>1. Answers(t, "unlink", FALSE) /\ chunk' = chunk
    BY <1>3 DEF UnlinkChunk, WhenMissing
  <2>2. QED
    BY <1>1, <2>1, AnswerStep DEF UploadInv, TypeOK, Chunked
<1>4. CASE chunk[FileOf(t)][n] # "none"
  <2> DEFINE to == IF LastChunk(n) THEN "register" ELSE "append"
  <2>1. /\ pc' = [pc EXCEPT ![t] = to] /\ position' = [position EXCEPT ![t] = n + 1]
        /\ chunk' = [chunk EXCEPT ![FileOf(t)][n] = "none"]
        /\ UNCHANGED <<tabVars, post, restarts>>
    BY <1>4 DEF UnlinkChunk
  <2>2. /\ to \in Merging /\ n + 1 \in 1..(Chunks + 1)
        /\ to = "append" => n + 1 \in Number
        /\ to # "unlink" /\ (to = "register" => n + 1 = Chunks + 1)
    BY <1>2, ChunksAssumption DEF LastChunk, Number, Merging
  <2>3. ASSUME NEW k \in Number, k < n + 1 PROVE Has(FileOf(t), k)'
    <3>1. k < n \/ k = n
      BY <1>2, <2>3, ChunksAssumption DEF Number
    <3>2. Has(FileOf(t), k)
      BY <1>1, <3>1 DEF UploadInv, MergeInv, Merging
    <3>3. FileOf(t)' = FileOf(t)
      BY <2>1 DEF FileOf, tabVars
    <3>4. QED
      BY <1>1, <3>2, <3>3, HasStays DEF UploadInv, TypeOK
  <2>4. chunk' \in [File -> Chunked]
    BY <1>1, <1>2, <2>1, ChunkChanges DEF UploadInv
  <2>5. Grows
    BY <1>1 DEF Grows
  <2> HIDE DEF to, n
  <2>6. QED
    BY <1>1, <2>1, <2>2, <2>3, <2>4, <2>5, MergeStep DEF Merging
<1>5. QED
  BY <1>3, <1>4

LEMMA RegisterStep ==
    ASSUME UploadInv, NEW t \in Thread, RegisterDelivery(t)
    PROVE  UploadInv'
<1>1. /\ pc[t] = "register" /\ Answers(t, "register", TRUE) /\ UNCHANGED <<chunk, target>>
      /\ rows' = [rows EXCEPT ![FileOf(t)] = @ + 1]
  BY DEF RegisterDelivery, Answers
<1>2. FileOf(t) \in File /\ position[t] = Chunks + 1
  BY <1>1, ThreadFile DEF UploadInv, MergeInv
<1>3. \A n \in Number : Has(FileOf(t), n)
  BY <1>1, <1>2, ChunksAssumption DEF UploadInv, MergeInv, Merging, Number
<1>4. rows' \in [File -> Nat] /\ \A f \in File \ {FileOf(t)} : rows'[f] = rows[f]
  BY <1>1, <1>2 DEF UploadInv, TypeOK
<1>5. chunk' \in [File -> Chunked]
  BY <1>1 DEF UploadInv, TypeOK, Chunked
<1>6. QED
  BY <1>1, <1>3, <1>4, <1>5, AnswerStep

-----------------------------------------------------------------------------
(* Steps of the browser and restarts *)

\* Tabs change nothing of the store and of threads that merge.
LEMMA BrowserMerge ==
    ASSUME UploadInv, UNCHANGED <<target, rows, position>>,
           \A b \in Tab : opened[b] \in File => opened'[b] = opened[b],
           \A u \in Thread : pc'[u] \in Merging \/ pc[u] \in Merging => pc'[u] = pc[u] /\ post'[u] = post[u]
    PROVE  MergeInv' /\ RegisteredHasAllChunks'
<1>1. ASSUME NEW u \in Thread, pc'[u] \in Merging PROVE FileOf(u)' = FileOf(u)
  BY <1>1 DEF FileOf, UploadInv, TypeOK, Merging, Post
<1>2. ASSUME NEW u \in Thread, NEW n \in Number, pc'[u] \in Merging,
             n < position'[u] \/ (pc'[u] = "unlink" /\ n = position'[u])
      PROVE  Has(FileOf(u), n)'
  <2>1. Has(FileOf(u), n)
    BY <1>2 DEF UploadInv, MergeInv
  <2>2. QED
    BY <1>1, <1>2, <2>1 DEF Has
<1>3. \A u \in Thread : /\ pc'[u] \notin Merging => position'[u] = 1
                        /\ pc'[u] = "register" => position'[u] = Chunks + 1
  BY DEF UploadInv, MergeInv, Merging
<1>4. QED
  BY <1>2, <1>3 DEF MergeInv, UploadInv, RegisteredHasAllChunks, Registered

LEMMA OpenStep ==
    ASSUME UploadInv, NEW b \in Tab, NEW f \in File, Open(b, f)
    PROVE  UploadInv'
<1>1. /\ opened[b] = Nobody /\ opened' = [opened EXCEPT ![b] = f]
      /\ UNCHANGED <<mark, failed, pc, post, position, chunk, target, rows, restarts>>
  BY DEF Open, threadVars, storeVars
<1>2. \A a \in Tab : opened[a] \in File => opened'[a] = opened[a]
  BY <1>1, NobodyAssumption DEF UploadInv, TypeOK
<1>3. TypeOK'
  BY <1>1, <1>2 DEF UploadInv, TypeOK, Post
<1>4. QED
  BY <1>1, <1>2, <1>3, BrowserMerge DEF UploadInv

LEMMA SendStep ==
    ASSUME UploadInv, NEW b \in Tab, NEW t \in Thread, Send(b, t)
    PROVE  UploadInv'
<1> DEFINE n == Next1(b)
           Marks == {"pending", "tested", "sent", "done"}
<1>1. n \in Number
  <2>1. Unsent(b) \subseteq Nat /\ Unsent(b) # {} /\ Unsent(b) \subseteq Number
    BY ChunksAssumption DEF Send, Unsent, Number
  <2>2. \E m \in Unsent(b) : \A k \in Unsent(b) : m <= k
    BY <2>1, HasLeast
  <2>3. QED
    BY <2>1, <2>2 DEF Next1
<1>2. /\ pc[t] = "idle" /\ opened[b] # Nobody
      /\ UNCHANGED <<opened, failed, position, chunk, target, rows, restarts>>
      /\ \/ mark' = [mark EXCEPT ![b][n] = "done"] /\ UNCHANGED <<pc, post>>
         \/ /\ mark' = [mark EXCEPT ![b][n] = "sent"]
            /\ pc' = [pc EXCEPT ![t] = IF n = 1 THEN "check1" ELSE "create"]
            /\ post' = [post EXCEPT ![t] = [tab |-> b, n |-> n]]
  BY DEF Send, storeVars, threadVars
<1>3. mark' \in [Tab -> [Number -> Marks]]
  <2>1. mark \in [Tab -> [Number -> Marks]] /\ "done" \in Marks /\ "sent" \in Marks
    BY DEF UploadInv, TypeOK
  <2> HIDE DEF n, Marks
  <2>2. /\ [mark EXCEPT ![b][n] = "done"] \in [Tab -> [Number -> Marks]]
        /\ [mark EXCEPT ![b][n] = "sent"] \in [Tab -> [Number -> Marks]]
    BY <1>1, <2>1, EntryChanges
  <2>3. QED
    BY <1>2, <2>2
<1>4. [tab |-> b, n |-> n] \in Post /\ opened[b] \in File
  BY <1>1, <1>2 DEF Post, UploadInv, TypeOK
<1>5. \A u \in Thread : pc'[u] \in Merging \/ pc[u] \in Merging => pc'[u] = pc[u] /\ post'[u] = post[u]
  BY <1>2 DEF UploadInv, TypeOK, Merging
<1> HIDE DEF n
<1>6. TypeOK'
  <2>1. /\ post' \in [Thread -> Post \union {Nobody}]
        /\ pc' \in [Thread -> {"idle", "check1", "create", "write", "count", "check2",
                                "append", "unlink", "register"}]
    <3>1. CASE UNCHANGED <<pc, post>>
      BY <3>1 DEF UploadInv, TypeOK
    <3>2. ASSUME NEW q \in Post, NEW to \in {"check1", "create"},
                 pc' = [pc EXCEPT ![t] = to], post' = [post EXCEPT ![t] = q]
          PROVE  /\ post' \in [Thread -> Post \union {Nobody}]
                 /\ pc' \in [Thread -> {"idle", "check1", "create", "write", "count", "check2",
                                        "append", "unlink", "register"}]
      BY <3>2 DEF UploadInv, TypeOK
    <3>3. QED
      BY <1>2, <1>4, <3>1, <3>2
  <2>2. ASSUME NEW u \in Thread, pc'[u] # "idle"
        PROVE  post'[u] \in Post /\ opened'[post'[u].tab] \in File
    <3>1. CASE u # t \/ UNCHANGED <<pc, post>>
      BY <1>2, <2>2, <3>1 DEF UploadInv, TypeOK
    <3>2. CASE u = t /\ post' = [post EXCEPT ![t] = [tab |-> b, n |-> n]]
      BY <1>2, <1>4, <3>2 DEF UploadInv, TypeOK
    <3>3. QED
      BY <1>2, <3>1, <3>2
  <2>3. \A u \in Thread : pc'[u] \in {"append", "unlink"} => position'[u] \in Number
    BY <1>2, <1>5 DEF UploadInv, TypeOK, Merging
  <2>4. QED
    BY <1>2, <1>3, <2>1, <2>2, <2>3 DEF UploadInv, TypeOK
<1>7. QED
  BY <1>2, <1>5, <1>6, BrowserMerge DEF UploadInv

LEMMA RestartStep ==
    ASSUME UploadInv, Restart
    PROVE  UploadInv'
<1>1. /\ restarts' \in 0..MaxRestarts
      /\ pc' = [t \in Thread |-> "idle"] /\ post' = [t \in Thread |-> Nobody]
      /\ position' = [t \in Thread |-> 1]
      /\ UNCHANGED <<opened, failed, chunk, target, rows>>
  BY RestartsAssumption DEF Restart, storeVars, UploadInv, TypeOK
<1>2. mark' \in [Tab -> [Number -> {"pending", "tested", "sent", "done"}]]
  BY DEF Restart, UploadInv, TypeOK
<1>3. TypeOK'
  BY <1>1, <1>2, ChunksAssumption DEF UploadInv, TypeOK
<1>4. MergeInv' /\ RegisteredHasAllChunks'
  BY <1>1 DEF UploadInv, MergeInv, Merging, RegisteredHasAllChunks, Registered
<1>5. QED
  BY <1>3, <1>4 DEF UploadInv

-----------------------------------------------------------------------------
LEMMA UploadStep == UploadInv /\ [Next]_vars => UploadInv'
<1> SUFFICES ASSUME UploadInv, [Next]_vars PROVE UploadInv'
  OBVIOUS
<1>1. ASSUME NEW t \in Thread, ServerStep(t) PROVE UploadInv'
  BY <1>1, ConflictStep, StoreStep, CountStep, AppendStep, UnlinkStep, RegisterStep DEF ServerStep
<1>2. CASE UNCHANGED vars
  <2>1. UNCHANGED <<opened, mark, failed, pc, post, position, chunk, target, rows, restarts>>
    BY <1>2 DEF vars, tabVars, threadVars, storeVars
  <2>2. TypeOK'
    BY <2>1 DEF UploadInv, TypeOK
  <2>3. QED
    BY <2>1, <2>2, BrowserMerge DEF UploadInv
<1>3. QED
  BY <1>1, <1>2, OpenStep, SendStep, RestartStep DEF Next, TabStep

LEMMA UploadInvariant == Spec => []UploadInv
<1>1. Init => UploadInv
  <2>1. Init => MergeInv /\ RegisteredHasAllChunks
    BY DEF Init, MergeInv, Merging, RegisteredHasAllChunks, Registered
  <2>2. QED
    BY <2>1, InitTypes DEF UploadInv
<1>2. QED
  BY <1>1, UploadStep, PTL DEF Spec

(* The tabs, the threads and the files keep their types.                   *)
THEOREM UploadTypeInvariant == Spec => []TypeOK
<1>1. UploadInv => TypeOK
  BY DEF UploadInv
<1>2. QED
  BY <1>1, UploadInvariant, PTL

(* Whatever threads race for the chunks and however often the frontend is  *)
(* restarted, a delivery that is registered has every chunk of its file.   *)
THEOREM RegisteredDeliveriesAreComplete == Spec => []RegisteredHasAllChunks
<1>1. UploadInv => RegisteredHasAllChunks
  BY DEF UploadInv
<1>2. QED
  BY <1>1, UploadInvariant, PTL

=============================================================================
