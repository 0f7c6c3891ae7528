------------------------------- MODULE Upload -------------------------------
(***************************************************************************)
(* The upload of delivery files in chunks (views.resumable_upload).  A     *)
(* browser tab asks for each chunk whether the server has it and posts it  *)
(* when not, several at a time.  Every post runs in a thread of the        *)
(* server: it stores its chunk, and the one that finds all chunks stored   *)
(* merges them into the user's file and registers the delivery.            *)
(*                                                                         *)
(* One user uploads files of one name.  Chunks are kept in a directory     *)
(* named after the size and the name of the file, here the file itself.    *)
(***************************************************************************)
EXTENDS Integers, Sequences, FiniteSets

CONSTANTS
    File,           \* the files of that name, of different sizes
    Tab,            \* browser tabs, each one uploads a file
    Thread,         \* server threads that serve posts
    Chunks,         \* resumableTotalChunks
    Simultaneous,   \* RESUMABLE_SIMULTANEOUS_UPLOADS
    MaxRestarts,    \* bound: the restarts of the frontend
    Nobody          \* no file, no tab

ASSUME ChunksAssumption == Chunks \in Nat \ {0} /\ Simultaneous \in Nat \ {0}
ASSUME FiniteAssumption == IsFiniteSet(File) /\ IsFiniteSet(Thread)
ASSUME NobodyAssumption == Nobody \notin File /\ Nobody \notin Tab
ASSUME RestartsAssumption == MaxRestarts \in Nat

VARIABLES
    opened,     \* the file of each tab
    mark,       \* what a tab knows of its chunks
    failed,     \* tabs that show an error, and send nothing any more
    pc,         \* how far the post of each thread has come
    post,       \* its tab and chunk number
    position,   \* the chunk it is merging
    chunk,      \* the stored chunks of each file
    target,     \* what is written to MEDIA_ROOT/<user>/<filename>
    rows,       \* the deliveries registered, by file
    restarts    \* the restarts so far

tabVars == <<opened, mark, failed>>
threadVars == <<pc, post, position>>
storeVars == <<chunk, target, rows>>
vars == <<tabVars, threadVars, storeVars, restarts>>

Number == 1..Chunks
Post   == [tab : Tab, n : Number]

TypeOK ==
    /\ opened \in [Tab -> File \union {Nobody}]
    /\ mark \in [Tab -> [Number -> {"pending", "tested", "sent", "done"}]]
    /\ failed \subseteq Tab
    /\ pc \in [Thread -> {"idle", "check1", "create", "write", "count", "check2",
                          "append", "unlink", "register"}]
    /\ post \in [Thread -> Post \union {Nobody}]
    /\ \A t \in Thread : pc[t] # "idle" => post[t] \in Post /\ opened[post[t].tab] \in File
    /\ position \in [Thread -> 1..(Chunks + 1)]
    /\ \A t \in Thread : pc[t] \in {"append", "unlink"} => position[t] \in Number
    \* a stored chunk is whole, or a thread (perhaps a dead one) is writing it
    /\ chunk \in [File -> [Number -> {"none", "whole"} \union Thread]]
    /\ target \in Seq([file : File, n : Number, whole : BOOLEAN])
    /\ rows \in [File -> Nat]
    /\ restarts \in 0..MaxRestarts

-----------------------------------------------------------------------------
(* Helpers *)

FileOf(t) == opened[post[t].tab]

\* uploaded_delivery_file_exists
DeliveryExists    == \E f \in File : rows[f] > 0

\* p.is_file() for all chunks
AllStored(f) == \A n \in Number : chunk[f][n] # "none"

\* The merge has come to its last chunk.
LastChunk(n)   == n = Chunks

\* open raises FileNotFoundError for a chunk another thread has merged.
PassOver(t)    == "unlink"                          \* mutant: exception swallowed
WaitForIt(t)   == "append"                          \* mutant: another try
WhenMissing(t) == "raise"

\* remove_old_chunks
RemoveChunks(f) == chunk' = [chunk EXCEPT ![f] = [n \in Number |-> "none"]]

Whole(f) == [n \in Number |-> [file |-> f, n |-> n, whole |-> TRUE]]

Init ==
    /\ opened = [b \in Tab |-> Nobody]
    /\ mark = [b \in Tab |-> [n \in Number |-> "pending"]]
    /\ failed = {}
    /\ pc = [t \in Thread |-> "idle"]
    /\ post = [t \in Thread |-> Nobody]
    /\ position = [t \in Thread |-> 1]
    /\ chunk = [f \in File |-> [n \in Number |-> "none"]]
    /\ target = <<>>
    /\ rows = [f \in File |-> 0]
    /\ restarts = 0

-----------------------------------------------------------------------------
(* The browser *)

Open(b, f) ==
    /\ opened[b] = Nobody
    /\ opened' = [opened EXCEPT ![b] = f]
    /\ UNCHANGED <<mark, failed, threadVars, storeVars, restarts>>

Unsent(b) == {n \in Number : mark[b][n] \in {"pending", "tested"}}
Next1(b)  == CHOOSE n \in Unsent(b) : \A k \in Unsent(b) : n <= k

\* The next chunk is tested first, unless it was tested before, and posted when
\* the server does not have it.
Send(b, t) ==
    /\ opened[b] # Nobody /\ b \notin failed
    /\ pc[t] = "idle"
    /\ Unsent(b) # {}
    /\ Cardinality({n \in Number : mark[b][n] = "sent"}) < Simultaneous
    /\ LET n == Next1(b)
       IN IF mark[b][n] = "pending" /\ chunk[opened[b]][n] # "none"
          THEN /\ mark' = [mark EXCEPT ![b][n] = "done"]
               /\ UNCHANGED threadVars
          ELSE /\ mark' = [mark EXCEPT ![b][n] = "sent"]
               /\ pc' = [pc EXCEPT ![t] = IF n = 1 THEN "check1" ELSE "create"]
               /\ post' = [post EXCEPT ![t] = [tab |-> b, n |-> n]]
               /\ UNCHANGED position
    /\ UNCHANGED <<opened, failed, storeVars, restarts>>

-----------------------------------------------------------------------------
(* The server *)

Goes(t, from, to) ==
    /\ pc[t] = from
    /\ pc' = [pc EXCEPT ![t] = to]
    /\ UNCHANGED <<tabVars, post, position, restarts>>

\* The thread answers, "done" or an error, and serves the next post.
Answers(t, from, ok) ==
    /\ pc[t] = from
    /\ pc' = [pc EXCEPT ![t] = "idle"]
    /\ post' = [post EXCEPT ![t] = Nobody]
    /\ position' = [position EXCEPT ![t] = 1]
    /\ IF ok THEN mark' = [mark EXCEPT ![post[t].tab][post[t].n] = "done"] /\ UNCHANGED failed
             ELSE failed' = failed \union {post[t].tab} /\ UNCHANGED mark
    /\ UNCHANGED <<opened, restarts>>

\* A delivery of that name is in the way: 409.  Chunk 1 asks at once, and the
\* thread that found all chunks asks again.
CheckConflict(t, from, to) ==
    /\ pc[t] = from
    /\ IF DeliveryExists
       THEN Answers(t, from, FALSE) /\ RemoveChunks(FileOf(t))
       ELSE Goes(t, from, to) /\ UNCHANGED chunk
    /\ UNCHANGED <<target, rows>>

\* FileSystemStorage.save creates the file, or one of another name that nobody
\* will read, ...
CreateChunk(t) ==
    /\ pc[t] = "create"
    /\ IF chunk[FileOf(t)][post[t].n] = "none"
       THEN /\ Goes(t, "create", "write")
            /\ chunk' = [chunk EXCEPT ![FileOf(t)][post[t].n] = t]
       ELSE Goes(t, "create", "count") /\ UNCHANGED chunk
    /\ UNCHANGED <<target, rows>>

\* ... and copies the data into it, unless it was unlinked meanwhile.
WriteChunk(t) ==
    /\ Goes(t, "write", "count")
    /\ chunk' = [chunk EXCEPT ![FileOf(t)][post[t].n] = IF @ = t THEN "whole" ELSE @]
    /\ UNCHANGED <<target, rows>>

CountChunks(t) ==
    /\ pc[t] = "count"
    /\ IF AllStored(FileOf(t))
       THEN Goes(t, "count", "check2")
       ELSE Answers(t, "count", TRUE)
    /\ UNCHANGED storeVars

\* merge_uploaded_chunks appends one chunk after the other to the file ...
AppendChunk(t) ==
    LET n == position[t]
        c == chunk[FileOf(t)][n]
    IN /\ pc[t] = "append"
       /\ IF c # "none"
          THEN /\ Goes(t, "append", "unlink")
               /\ target' = Append(target, [file |-> FileOf(t), n |-> n, whole |-> c = "whole"])
          ELSE /\ IF WhenMissing(t) = "raise"
                  THEN Answers(t, "append", FALSE)
                  ELSE Goes(t, "append", WhenMissing(t))
               /\ UNCHANGED target
       /\ UNCHANGED <<chunk, rows>>

\* ... and unlinks it, which raises FileNotFoundError when another thread did.
UnlinkChunk(t) ==
    LET n == position[t]
    IN /\ pc[t] = "unlink"
       /\ IF chunk[FileOf(t)][n] = "none" /\ WhenMissing(t) = "raise"
          THEN Answers(t, "unlink", FALSE) /\ UNCHANGED chunk
          ELSE /\ pc' = [pc EXCEPT ![t] = IF LastChunk(n) THEN "register" ELSE "append"]
               /\ position' = [position EXCEPT ![t] = n + 1]
               /\ chunk' = [chunk EXCEPT ![FileOf(t)][n] = "none"]
               /\ UNCHANGED <<tabVars, post, restarts>>
       /\ UNCHANGED <<target, rows>>

RegisterDelivery(t) ==
    /\ Answers(t, "register", TRUE)
    /\ rows' = [rows EXCEPT ![FileOf(t)] = @ + 1]
    /\ UNCHANGED <<chunk, target>>

\* The frontend container stops and comes back: posts under way are gone, the
\* browser sends them again.
Restart ==
    /\ restarts < MaxRestarts
    /\ restarts' = restarts + 1
    /\ \E t \in Thread : pc[t] # "idle"
    /\ pc' = [t \in Thread |-> "idle"]
    /\ post' = [t \in Thread |-> Nobody]
    /\ position' = [t \in Thread |-> 1]
    /\ mark' = [b \in Tab |-> [n \in Number |->
                    IF mark[b][n] = "sent" THEN "tested" ELSE mark[b][n]]]
    /\ UNCHANGED <<opened, failed, storeVars>>

-----------------------------------------------------------------------------
(* The system *)

ServerStep(t) ==
    \/ CheckConflict(t, "check1", "create") \/ CheckConflict(t, "check2", "append")
    \/ CreateChunk(t) \/ WriteChunk(t) \/ CountChunks(t)
    \/ AppendChunk(t) \/ UnlinkChunk(t) \/ RegisterDelivery(t)

TabStep(b) == \E t \in Thread : Send(b, t)

Next ==
    \/ \E b \in Tab : (\E f \in File : Open(b, f)) \/ TabStep(b)
    \/ \E t \in Thread : ServerStep(t)
    \/ Restart

Spec == Init /\ [][Next]_vars

(* Threads are scheduled, and a tab goes on while it is open.                 *)
FairSpec ==
    /\ Spec
    /\ \A b \in Tab : WF_vars(TabStep(b))
    /\ \A t \in Thread : WF_vars(ServerStep(t))

-----------------------------------------------------------------------------
(* Properties *)

Registered == {f \in File : rows[f] > 0}

\* The tab shows "File uploaded successfully."
Complete(b) == opened[b] # Nobody /\ \A n \in Number : mark[b][n] = "done"

\* A registered delivery has the whole file: each chunk once, in order and to
\* its end ("Combine all the chunks to create the final file.").
RegisteredIsWhole == \A f \in Registered : target = Whole(f)

\* Whatever threads race for the chunks, a delivery is only registered by one
\* that got every one of them: a chunk is unlinked once (merge_uploaded_chunks).
RegisteredHasAllChunks ==
    \A f \in Registered : \A n \in Number :
        \E i \in DOMAIN target : target[i].file = f /\ target[i].n = n

\* There is one delivery of a name ("A file named {} already exists.").
OneDelivery == \A f, g \in Registered : f = g /\ rows[f] = 1

\* When a tab says so, there is a delivery ("File uploaded successfully.").
UploadedIsRegistered == \A b \in Tab : Complete(b) => Registered # {}

\* Every upload comes to an end, though its chunks are merged and removed by
\* others: the tab says that it is complete or shows an error.
UploadEnds == \A b \in Tab : (opened[b] # Nobody) ~> (Complete(b) \/ b \in failed)

=============================================================================
