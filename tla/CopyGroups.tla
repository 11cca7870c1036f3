----------------------------- MODULE CopyGroups -----------------------------
(***************************************************************************)
(* Runs of do_copy.py for one camera: the files are grouped into           *)
(* recordings and named, the metadata of a group is saved file by file,    *)
(* the destination is asked what it lacks, and that is copied.  A run may  *)
(* be killed between any two steps; between runs the camera records new    *)
(* files and deletes its oldest.                                           *)
(*                                                                         *)
(* Files are numbered by their time.  The name <<l, s, t>> says: file s of *)
(* the t files of the recording that begins with file l.                   *)
(*                                                                         *)
(* Of a copy its size is kept, which is all that a later run asks for, and *)
(* whether something is missing before its end.  The server stores a block *)
(* whole; on a disk os.write may store it in part, and the run goes on.    *)
(***************************************************************************)
EXTENDS Integers, FiniteSets

CONSTANTS
  NumFiles,   \* bound: files the camera records
  Size,       \* size of a file
  BlockSize,  \* FileReader.BLOCKSIZE
  Delete      \* the destination drops what the camera no longer has

Files == 1 .. NumFiles

ASSUME SizesAssumption ==
  NumFiles \in Nat /\ Size \in Nat \ {0} /\ BlockSize \in Nat \ {0}
ASSUME DeleteAssumption == Delete \in BOOLEAN

Names  == {n \in Files \X Files \X Files : n[2] <= n[3]}
NoName == <<0, 0, 0>>
NotBegun == -1

VARIABLES
  local,     \* --localpath: the destination is a directory
  close,     \* files that begin where the file before them ends
  recorded,  \* files recorded so far
  present,   \* files on the camera
  saved,     \* newfn in the metadata of files that have merge_from
  pc,        \* off, save, copy, done
  name,      \* data['newfn'] in this run
  todo,      \* files whose metadata is still to be saved, in their order
  need,      \* files still to be copied
  cpos,      \* where the next block of the file begins that is being copied
  dst,       \* size of what is stored under each name
  gaps,      \* names under which something before the end is missing
  short,     \* history: names with a block this run stored in part
  halved     \* history: recordings whose saving was cut short

camera == <<close, recorded, present>>
disk   == <<dst, gaps>>
vars == <<local, camera, saved, pc, name, todo, need, cpos, disk, short, halved>>

Init ==
  /\ local \in BOOLEAN
  /\ close \in SUBSET (Files \ {1})
  /\ recorded = 0 /\ present = {}
  /\ saved = [f \in Files |-> NoName]
  /\ pc = "off" /\ name = saved /\ todo = {} /\ need = {}
  /\ cpos = NotBegun /\ dst = [n \in Names |-> 0] /\ gaps = {}
  /\ short = {} /\ halved = {}

-----------------------------------------------------------------------------
(* generate_meta *)

\* should_merge, of f with the file before it.
Merges(f) ==
  /\ f - 1 \in present /\ f \in close
  /\ saved[f - 1] = NoName /\ saved[f] = NoName

\* The first and the last file of the recording f is merged into.
FirstOf(f) == CHOOSE l \in present : /\ l <= f /\ ~Merges(l)
                                   /\ \A g \in (l + 1) .. f : Merges(g)
LastOf(f) == CHOOSE l \in present : /\ l >= f /\ ~(l + 1 \in present /\ Merges(l + 1))
                                   /\ \A g \in (f + 1) .. l : Merges(g)

\* Faulty variant: a merged file gets a name like any other.
Newfn_Anew(f) == <<FirstOf(f), (f - FirstOf(f)) + 1, (LastOf(f) - FirstOf(f)) + 1>>

Newfn(f) ==
  IF saved[f] # NoName THEN saved[f]
  ELSE <<FirstOf(f), (f - FirstOf(f)) + 1, (LastOf(f) - FirstOf(f)) + 1>>

\* Faulty variant: the loop over the members ends one too early.
Unsaved_AllButLast ==
  {f \in present : saved[f] = NoName /\ FirstOf(f) # LastOf(f) /\ f # LastOf(f)}

\* The members of a new recording; a file on its own is named but not saved.
Unsaved == {f \in present : saved[f] = NoName /\ FirstOf(f) # LastOf(f)}

\* The files are sorted by their time: the one of S that is next.
IsNext(f, S) == f \in S /\ \A g \in S : f <= g

Start ==
  /\ pc = "off" /\ present # {}
  /\ name' = [f \in Files |-> IF f \in present THEN Newfn(f) ELSE NoName]
  /\ todo' = Unsaved
  /\ pc' = "save"
  /\ UNCHANGED <<local, camera, saved, need, cpos, disk, short, halved>>

SaveMeta ==
  /\ pc = "save"
  /\ \E f \in todo :
       /\ IsNext(f, todo)
       /\ saved' = [saved EXCEPT ![f] = name[f]]
       /\ todo' = todo \ {f}
  /\ UNCHANGED <<local, camera, pc, name, need, cpos, disk, short, halved>>

-----------------------------------------------------------------------------
(* main *)

Wanted == {name[f] : f \in present}

\* Faulty variant: what is there is not asked for again, whole or not.
Lacking_Begun == {f \in present : dst[name[f]] = 0}

\* local_query, and the server's answer, by the sizes.
Lacking == {f \in present : Size > dst[name[f]]}

\* What is dropped at the destination: local_query is asked not to.
Deleted == {n \in Names : Delete /\ ~local /\ n \notin Wanted}

\* Metadata of files that are gone are removed first.
Query ==
  /\ pc = "save" /\ todo = {}
  /\ saved' = [f \in Files |-> IF f \in present THEN saved[f] ELSE NoName]
  /\ need' = Lacking
  /\ dst' = [n \in Names |-> IF n \in Deleted THEN 0 ELSE dst[n]]
  /\ gaps' = gaps \ Deleted
  /\ pc' = "copy"
  /\ UNCHANGED <<local, camera, name, todo, cpos, short, halved>>

\* A file is read from where its copy ends, and then block after block.
Position(f) == IF cpos = NotBegun THEN dst[name[f]] ELSE cpos
BlockEnd(pos) == IF pos + BlockSize < Size THEN pos + BlockSize ELSE Size

\* The order of the names is that of the files.  A block that was stored up to
\* `upto` only is not noticed: the next one is stored behind the gap.
CopyBlock ==
  /\ pc = "copy"
  /\ \E f \in need :
       /\ IsNext(f, need)
       /\ \E upto \in (Position(f) + 1) .. BlockEnd(Position(f)) :
            /\ upto = BlockEnd(Position(f)) \/ local
            /\ dst' = [dst EXCEPT ![name[f]] = upto]
            /\ gaps' = gaps \cup {n \in {name[f]} : Position(f) > dst[n]}
            /\ short' = short \cup {n \in {name[f]} : upto < BlockEnd(Position(f))}
       /\ IF BlockEnd(Position(f)) = Size
          THEN need' = need \ {f} /\ cpos' = NotBegun
          ELSE need' = need /\ cpos' = BlockEnd(Position(f))
  /\ UNCHANGED <<local, camera, saved, pc, name, todo, halved>>

Finish ==
  /\ pc = "copy" /\ need = {}
  /\ pc' = "done"
  /\ UNCHANGED <<local, camera, saved, name, todo, need, cpos, disk, short, halved>>

\* The recording that is half saved, if there is one.
Half == {name[f][1] : f \in {g \in todo : IsNext(g, todo) /\ name[g][2] > 1}}

\* The process has ended, or is interrupted, or gives up.
Exit ==
  /\ pc # "off"
  /\ pc' = "off"
  /\ halved' = halved \cup Half
  /\ name' = [f \in Files |-> NoName] /\ todo' = {} /\ need' = {}
  /\ cpos' = NotBegun /\ short' = {}
  /\ UNCHANGED <<local, camera, saved, disk>>

-----------------------------------------------------------------------------
(* The camera, which is either recording or copied from *)

Record ==
  /\ pc = "off" /\ recorded < NumFiles
  /\ recorded' = recorded + 1
  /\ present' = present \cup {recorded + 1}
  /\ UNCHANGED <<local, close, saved, pc, name, todo, need, cpos, disk, short, halved>>

DropOldest ==
  /\ pc = "off"
  /\ \E f \in present : IsNext(f, present) /\ present' = present \ {f}
  /\ UNCHANGED <<local, close, recorded, saved, pc, name, todo, need, cpos, disk,
                 short, halved>>

\* The bound on what the camera records is reached and all of it is dropped.
Over == pc = "off" /\ recorded = NumFiles /\ present = {} /\ UNCHANGED vars

Next == \/ Start \/ SaveMeta \/ Query \/ CopyBlock \/ Finish \/ Exit
        \/ Record \/ DropOldest \/ Over

Spec == Init /\ [][Next]_vars

-----------------------------------------------------------------------------
(* Properties *)

\* The files of a recording that was merged, as far as the camera still has
\* them, agree on where it begins and how many they are, unless a run was
\* killed in the middle of saving just that recording: nothing recorded,
\* dropped or killed at another time takes a recording apart.
RecordingsWhole ==
  \A f \in present : saved[f] # NoName /\ pc # "save" =>
    \A g \in present \cap (saved[f][1] .. ((saved[f][1] + saved[f][3]) - 1)) :
      \/ saved[f][1] \in halved
      \/ saved[g] = <<saved[f][1], (g - saved[f][1]) + 1, saved[f][3]>>

\* The name of a file of a merged recording never changes while the camera
\* has the file, and it is the one every later run copies it to, so that what
\* was copied is not copied again under another name and dropped.
NameKept ==
  [][\A f \in present \cap present' : saved[f] # NoName =>
       saved'[f] = saved[f] /\ name'[f] \in {NoName, saved[f]}]_vars

\* After a run that ended well, whatever earlier runs left behind, every file
\* has a name of its own at the destination and its full size there, and
\* nothing else is there if the destination deletes.  An upload lacks nothing;
\* a disk may lack the end of a file of which this run stored a block in part,
\* which the next run stores, and what is missing in a gap, which none does.
CompleteOnSuccess ==
  pc = "done" =>
    /\ \A f \in present : /\ dst[name[f]] = Size \/ (local /\ name[f] \in short)
                          /\ name[f] \in gaps => local
    /\ Cardinality(Wanted) = Cardinality(present)
    /\ Delete /\ ~local => \A n \in Names : dst[n] > 0 => n \in Wanted

=============================================================================
