-------------------------- MODULE CopyGroups_proofs --------------------------
(***************************************************************************)
(* Safety of runs of the copy, for any number of files and sizes.  A       *)
(* name tells which file it is of, whatever the recording it is in: from   *)
(* this names are kept, and files do not share a name at the destination.  *)
(***************************************************************************)
EXTENDS CopyGroups, FiniteSetTheorems, TLAPS

\* n is a name of file f.
NameOf(f, n) == n \in Names /\ n[1] + n[2] = f + 1

FileTypes ==
  /\ pc \in {"off", "save", "copy", "done"}
  /\ recorded \in 0 .. NumFiles /\ present \subseteq Files
  /\ saved = [f \in Files |-> saved[f]] /\ name = [f \in Files |-> name[f]]
  /\ dst \in [Names -> 0 .. Size] /\ cpos \in {NotBegun} \cup 0 .. Size

Named ==
  /\ \A f \in Files : saved[f] = NoName \/ NameOf(f, saved[f])
  /\ \A f \in Files : name[f] = NoName \/ NameOf(f, name[f])
  /\ pc # "off" => \A f \in present : NameOf(f, name[f])

\* In a run, a file that has a name in the metadata goes by it.
BySaved ==
  /\ pc = "off" => \A f \in Files : name[f] = NoName
  /\ pc # "off" => \A f \in present : saved[f] # NoName => name[f] = saved[f]

\* A file that is not to be copied any more has its full size or was stored
\* short in this run.  An upload is never stored short, for the next block
\* begins where the file at the destination ends.
Copied ==
  /\ ~local => gaps = {} /\ short = {}
  /\ pc \in {"off", "save"} => cpos = NotBegun
  /\ ~local /\ cpos # NotBegun =>
       \A f \in need : IsNext(f, need) => dst[name[f]] = cpos
  /\ pc \in {"copy", "done"} =>
       /\ \A f \in present : f \in need \/ dst[name[f]] = Size \/ name[f] \in short
       /\ need \subseteq present
       /\ Delete /\ ~local => \A n \in Names : dst[n] > 0 => n \in Wanted
  /\ pc = "done" => need = {}

CopyInv == FileTypes /\ Named /\ BySaved /\ Copied

-----------------------------------------------------------------------------
(* Recordings *)

\* Every set of natural numbers has a least element.
LEMMA Least ==
  ASSUME NEW T \in SUBSET Nat, T # {}
  PROVE  \E x \in T : \A y \in T : x <= y
<1> DEFINE R == OpToRel(<, Nat)
<1>1. IsWellFoundedOn(R, Nat) BY NatLessThanWellFounded, Zenon
<1>2. \A x, y \in Nat : y < x => <<y, x>> \in R BY DEF OpToRel
<1> HIDE DEF R
<1>3. PICK x \in T : \A y \in T : ~(<<y, x>> \in R) BY <1>1, WFMin, Zenon
<1>4. ASSUME NEW y \in T PROVE x <= y
  <2>1. x \in Nat /\ y \in Nat /\ ~(y < x) BY <1>2, <1>3
  <2> QED BY <2>1
<1> QED BY <1>4, Zenon

LEMMA Greatest ==
  ASSUME NEW T \in SUBSET Files, T # {}
  PROVE  \E x \in T : \A y \in T : y <= x
<1> DEFINE D == {NumFiles - t : t \in T}
<1>1. D \in SUBSET Nat /\ D # {}
  <2>1. NumFiles \in Nat BY SizesAssumption
  <2>2. \A t \in T : t \in Files BY Zenon
  <2>3. \A t \in T : NumFiles - t \in Nat BY <2>1, <2>2 DEF Files
  <2> QED BY <2>3, Zenon
<1>2. PICK d \in D : \A e \in D : d <= e BY <1>1, Least
<1>3. PICK x \in T : d = NumFiles - x OBVIOUS
<1>4. ASSUME NEW y \in T PROVE y <= x
  <2>1. d <= NumFiles - y BY <1>2
  <2> QED BY <1>3, <2>1, SizesAssumption DEF Files
<1> QED BY <1>4

\* The recording of a file begins and ends with files of the camera, on
\* either side of it.
LEMMA FirstLemma ==
  ASSUME present \subseteq Files, NEW f \in present
  PROVE  /\ FirstOf(f) \in present /\ FirstOf(f) <= f /\ ~Merges(FirstOf(f))
         /\ \A g \in (FirstOf(f) + 1) .. f : Merges(g)
<1> DEFINE S == {l \in present : l <= f /\ \A g \in (l + 1) .. f : Merges(g)}
<1>1. f \in S /\ S \in SUBSET Nat
  <2>1. f \in Int /\ Files \in SUBSET Nat BY SizesAssumption DEF Files
  <2>2. (f + 1) .. f = {} /\ f <= f /\ f >= f BY <2>1
  <2>3. f \in S BY <2>2
  <2> QED BY <2>1, <2>3
<1>2. PICK l \in S : \A m \in S : l <= m BY <1>1, Least
<1>3. ASSUME Merges(l) PROVE FALSE
  <2>1. l - 1 \in present BY <1>3 DEF Merges
  <2>2. \A g \in ((l - 1) + 1) .. f : g = l \/ g \in (l + 1) .. f BY <1>1, <1>2
  <2>3. l - 1 \in S BY <1>1, <1>2, <1>3, <2>1, <2>2
  <2> QED BY <1>1, <1>2, <2>3
<1>4. \E m \in present : m <= f /\ ~Merges(m) /\ \A g \in (m + 1) .. f : Merges(g)
  BY <1>2, <1>3
<1> QED BY <1>4 DEF FirstOf

LEMMA LastLemma ==
  ASSUME present \subseteq Files, NEW f \in present
  PROVE  /\ LastOf(f) \in present /\ LastOf(f) >= f
         /\ ~(LastOf(f) + 1 \in present /\ Merges(LastOf(f) + 1))
         /\ \A g \in (f + 1) .. LastOf(f) : Merges(g)
<1> DEFINE S == {l \in present : l >= f /\ \A g \in (f + 1) .. l : Merges(g)}
<1>1. f \in S /\ S \in SUBSET Files
  <2>1. f \in Int /\ Files \in SUBSET Nat BY SizesAssumption DEF Files
  <2>2. (f + 1) .. f = {} /\ f <= f /\ f >= f BY <2>1
  <2>3. f \in S BY <2>2
  <2> QED BY <2>1, <2>3
<1>2. PICK l \in S : \A m \in S : m <= l BY <1>1, Greatest
<1>3. l \in Int /\ f \in Int BY <1>1, <1>2 DEF Files
<1>4. ASSUME l + 1 \in present, Merges(l + 1) PROVE FALSE
  <2>1. \A g \in (f + 1) .. (l + 1) : g = l + 1 \/ g \in (f + 1) .. l BY <1>3
  <2>2. l + 1 \in S BY <1>2, <1>3, <1>4, <2>1
  <2> QED BY <1>2, <1>3, <2>2
<1>5. \E m \in present : /\ m >= f /\ ~(m + 1 \in present /\ Merges(m + 1))
                         /\ \A g \in (f + 1) .. m : Merges(g)
  BY <1>2, <1>4
<1> QED BY <1>5 DEF LastOf

LEMMA NewfnLemma ==
  ASSUME present \subseteq Files, NEW f \in present,
         saved[f] = NoName \/ NameOf(f, saved[f])
  PROVE  NameOf(f, Newfn(f))
<1>1. CASE saved[f] # NoName BY <1>1 DEF Newfn
<1>2. CASE saved[f] = NoName
  <2> DEFINE l == FirstOf(f)
             m == LastOf(f)
  <2>1. l \in present /\ l <= f /\ m \in present /\ m >= f
    BY FirstLemma, LastLemma
  <2>2. Newfn(f) = <<l, (f - l) + 1, (m - l) + 1>> BY <1>2 DEF Newfn
  <2> HIDE DEF l, m
  <2>3. /\ l \in Files /\ (f - l) + 1 \in Files /\ (m - l) + 1 \in Files
        /\ (f - l) + 1 <= (m - l) + 1 /\ l + ((f - l) + 1) = f + 1
    BY <2>1, SizesAssumption DEF Files
  <2> QED BY <2>2, <2>3 DEF NameOf, Names
<1> QED BY <1>1, <1>2

\* Files do not share a name.
LEMMA NameLemma ==
  ASSUME NEW f \in Files, NEW g \in Files, NEW n, NameOf(f, n), NameOf(g, n)
  PROVE  f = g
<1>1. n[1] + n[2] = f + 1 /\ n[1] + n[2] = g + 1 /\ f \in Int /\ g \in Int
  BY DEF NameOf, Files
<1> QED BY <1>1

LEMMA NoNameLemma == NoName \notin Names
BY DEF NoName, Names, Files

-----------------------------------------------------------------------------
(* The steps *)

LEMMA InitCopy == Init => CopyInv
<1> SUFFICES ASSUME Init PROVE CopyInv OBVIOUS
<1>1. FileTypes BY SizesAssumption DEF Init, FileTypes
<1>2. Named /\ BySaved /\ Copied BY DEF Init, Named, BySaved, Copied, NotBegun
<1> QED BY <1>1, <1>2 DEF CopyInv

LEMMA StartCopy == CopyInv /\ Start => CopyInv'
<1> SUFFICES ASSUME CopyInv, Start PROVE CopyInv' OBVIOUS
<1> USE DEF CopyInv
<1>1. /\ UNCHANGED <<local, recorded, present, saved, cpos, dst, gaps, short>>
      /\ pc = "off" /\ pc' = "save"
      /\ name' = [f \in Files |-> IF f \in present THEN Newfn(f) ELSE NoName]
  BY DEF Start, camera, disk
<1>2. \A f \in present : NameOf(f, Newfn(f)) BY NewfnLemma DEF FileTypes, Named
<1>3. FileTypes' BY <1>1 DEF FileTypes
<1>4. Named'
  <2>1. \A f \in Files : name'[f] = IF f \in present THEN Newfn(f) ELSE NoName BY <1>1
  <2> QED BY <1>1, <1>2, <2>1 DEF Named, FileTypes, NameOf
<1>5. BySaved' BY <1>1 DEF BySaved, Newfn, FileTypes
<1>6. Copied' BY <1>1 DEF Copied
<1> QED BY <1>3, <1>4, <1>5, <1>6

LEMMA SaveCopy == CopyInv /\ SaveMeta => CopyInv'
<1> SUFFICES ASSUME CopyInv, SaveMeta PROVE CopyInv' OBVIOUS
<1> USE DEF CopyInv
<1> PICK h \in todo : saved' = [saved EXCEPT ![h] = name[h]] BY DEF SaveMeta
<1>1. /\ UNCHANGED <<local, recorded, present, name, pc, need, cpos, dst, gaps, short>>
      /\ pc = "save"
  BY DEF SaveMeta, camera, disk
<1>2. saved' = [f \in Files |-> IF f = h THEN name[h] ELSE saved[f]]
  BY <1>1 DEF FileTypes
<1>3. FileTypes' BY <1>1, <1>2 DEF FileTypes
<1>4. Named' BY <1>1, <1>2 DEF Named, NameOf
<1>5. BySaved' BY <1>1, <1>2 DEF BySaved, FileTypes
<1>6. Copied' BY <1>1 DEF Copied
<1> QED BY <1>3, <1>4, <1>5, <1>6

LEMMA QueryCopy == CopyInv /\ Query => CopyInv'
<1> SUFFICES ASSUME CopyInv, Query PROVE CopyInv' OBVIOUS
<1> USE DEF CopyInv
<1>1. /\ UNCHANGED <<local, recorded, present, name, cpos, short>>
      /\ pc = "save" /\ pc' = "copy" /\ gaps' = gaps \ Deleted
      /\ saved' = [f \in Files |-> IF f \in present THEN saved[f] ELSE NoName]
      /\ need' = Lacking
      /\ dst' = [n \in Names |-> IF n \in Deleted THEN 0 ELSE dst[n]]
  BY DEF Query, camera
<1>2. Wanted' = Wanted BY <1>1 DEF Wanted
<1>3. FileTypes' BY <1>1, SizesAssumption DEF FileTypes
<1>4. Named' BY <1>1 DEF Named, NameOf
<1>5. BySaved' BY <1>1 DEF BySaved, FileTypes
<1>6. Copied'
  <2>1. ASSUME NEW f \in present
        PROVE  /\ dst'[name'[f]] = dst[name[f]] /\ dst[name[f]] \in 0 .. Size
    BY <1>1 DEF Named, NameOf, Wanted, FileTypes, Deleted
  <2>2. \A f \in present : f \in need' \/ dst'[name'[f]] = Size
    BY <1>1, <2>1, SizesAssumption DEF Lacking
  <2>3. Delete /\ ~local => \A n \in Names : dst'[n] > 0 => n \in Wanted'
    BY <1>1, <1>2 DEF Deleted
  <2>4. cpos' = NotBegun /\ (~local' => gaps' = {} /\ short' = {})
    BY <1>1 DEF Copied
  <2> QED BY <1>1, <2>2, <2>3, <2>4 DEF Copied, Lacking
<1> QED BY <1>3, <1>4, <1>5, <1>6

\* Of two files that are next there is one.
LEMMA NextLemma ==
  ASSUME NEW S \in SUBSET Files, NEW f, NEW g, IsNext(f, S), IsNext(g, S)
  PROVE  f = g
BY DEF IsNext, Files

LEMMA BlockCopy == CopyInv /\ CopyBlock => CopyInv'
<1> SUFFICES ASSUME CopyInv, CopyBlock PROVE CopyInv' OBVIOUS
<1> USE DEF CopyInv
<1>1. PICK f \in need :
        /\ IsNext(f, need)
        /\ \E upto \in (Position(f) + 1) .. BlockEnd(Position(f)) :
             /\ upto = BlockEnd(Position(f)) \/ local
             /\ dst' = [dst EXCEPT ![name[f]] = upto]
             /\ gaps' = gaps \cup {n \in {name[f]} : Position(f) > dst[n]}
             /\ short' = short \cup {n \in {name[f]} : upto < BlockEnd(Position(f))}
        /\ IF BlockEnd(Position(f)) = Size
           THEN need' = need \ {f} /\ cpos' = NotBegun
           ELSE need' = need /\ cpos' = BlockEnd(Position(f))
  BY DEF CopyBlock
<1> DEFINE pos == Position(f)
           end == BlockEnd(pos)
<1>2. PICK upto \in (pos + 1) .. end :
        /\ upto = end \/ local
        /\ dst' = [dst EXCEPT ![name[f]] = upto]
        /\ gaps' = gaps \cup {n \in {name[f]} : pos > dst[n]}
        /\ short' = short \cup {n \in {name[f]} : upto < end}
  BY <1>1
<1>3. /\ UNCHANGED <<local, recorded, present, saved, name, pc>> /\ pc = "copy"
  BY DEF CopyBlock, camera
<1>4. f \in present /\ f \in Files /\ need \subseteq present /\ present \subseteq Files
  BY <1>3 DEF Copied, FileTypes
<1>5. NameOf(f, name[f]) /\ name[f] \in Names BY <1>3, <1>4 DEF Named, NameOf
<1>6. pos \in 0 .. Size /\ end \in 0 .. Size
  <2>1. dst[name[f]] \in 0 .. Size BY <1>5 DEF FileTypes
  <2>2. pos \in 0 .. Size BY <2>1 DEF Position, FileTypes
  <2> QED BY <2>2, SizesAssumption DEF BlockEnd
<1>7. IF end = Size THEN need' = need \ {f} /\ cpos' = NotBegun
                    ELSE need' = need /\ cpos' = end
  BY <1>1
<1>8. ~local => pos = dst[name[f]]
  BY <1>1 DEF Copied, Position
<1> HIDE DEF pos, end
<1>9. upto \in 0 .. Size
  <2>1. upto \in Int /\ pos + 1 <= upto /\ upto <= end BY <1>6
  <2>2. Size \in Nat BY SizesAssumption
  <2> QED BY <1>6, <2>1, <2>2
<1>10. dst' \in [Names -> 0 .. Size] BY <1>2, <1>5, <1>9 DEF FileTypes
<1>11. /\ dst'[name[f]] = upto
       /\ \A n \in Names \ {name[f]} : dst'[n] = dst[n]
  BY <1>2, <1>5 DEF FileTypes
<1>12. Copied'
  <2>1. ~local' => gaps' = {} /\ short' = {}
    <3> SUFFICES ASSUME ~local PROVE gaps' = {} /\ short' = {}
      BY <1>3
    <3>1. upto = end /\ gaps = {} /\ short = {} /\ pos = dst[name[f]]
      BY <1>2, <1>8 DEF Copied
    <3>2. ~(pos > dst[name[f]]) /\ ~(upto < end)
      BY <1>6, <3>1
    <3> QED BY <1>2, <3>1, <3>2
  <2>2. ~local' /\ cpos' # NotBegun =>
          \A g \in need' : IsNext(g, need') => dst'[name'[g]] = cpos'
    <3> SUFFICES ASSUME ~local, cpos' # NotBegun, NEW g \in need', IsNext(g, need')
                 PROVE  dst'[name'[g]] = cpos'
      BY <1>3
    <3>1. need' = need /\ cpos' = end BY <1>7
    <3>2. g = f BY <1>1, <1>4, <3>1, NextLemma
    <3> QED BY <1>2, <1>3, <1>11, <3>1, <3>2
  <2>3. ASSUME NEW g \in present
        PROVE  g \in need' \/ dst'[name'[g]] = Size \/ name'[g] \in short'
    <3>1. CASE g = f
      <4>1. upto < end => name[f] \in short' BY <1>2
      <4>2. upto = end \/ upto < end BY <1>6
      <4> QED BY <1>3, <1>7, <1>11, <1>1, <3>1, <4>1, <4>2
    <3>2. CASE g # f
      <4>1. NameOf(g, name[g]) /\ g \in Files BY <1>3 DEF Named, FileTypes
      <4>2. name[g] # name[f] BY <1>4, <1>5, <3>2, <4>1, NameLemma
      <4>3. dst'[name'[g]] = dst[name[g]] BY <1>3, <1>11, <4>1, <4>2 DEF NameOf
      <4>4. g \in need \/ dst[name[g]] = Size \/ name[g] \in short BY <1>3 DEF Copied
      <4> QED BY <1>2, <1>3, <1>7, <3>2, <4>3, <4>4
    <3> QED BY <3>1, <3>2
  <2>4. Delete /\ ~local' => \A n \in Names : dst'[n] > 0 => n \in Wanted'
    <3>1. name[f] \in Wanted /\ Wanted' = Wanted BY <1>3, <1>4 DEF Wanted
    <3> QED BY <1>3, <1>11, <3>1 DEF Copied
  <2>5. need' \subseteq present' BY <1>3, <1>4, <1>7
  <2> QED BY <1>3, <2>1, <2>2, <2>3, <2>4, <2>5 DEF Copied
<1>13. FileTypes' BY <1>3, <1>6, <1>7, <1>10 DEF FileTypes
<1>14. Named' /\ BySaved' BY <1>3 DEF Named, BySaved, NameOf
<1> QED BY <1>12, <1>13, <1>14

LEMMA OtherCopy == CopyInv /\ (Finish \/ Exit \/ Record \/ DropOldest) => CopyInv'
<1> SUFFICES ASSUME CopyInv, Finish \/ Exit \/ Record \/ DropOldest PROVE CopyInv'
  OBVIOUS
<1> USE DEF CopyInv
<1>1. CASE Finish
  <2>1. UNCHANGED <<local, recorded, present, saved, name, need, cpos, dst, gaps, short>>
        /\ pc = "copy" /\ pc' = "done" /\ need = {}
    BY <1>1 DEF Finish, camera, disk
  <2> QED BY <2>1 DEF FileTypes, Named, BySaved, Copied, NameOf, Wanted
<1>2. CASE Exit
  <2>1. UNCHANGED <<local, recorded, present, saved, dst, gaps>> /\ pc' = "off"
        /\ name' = [f \in Files |-> NoName] /\ cpos' = NotBegun /\ short' = {}
    BY <1>2 DEF Exit, camera, disk
  <2> QED BY <2>1 DEF FileTypes, Named, BySaved, Copied, NameOf
<1>3. CASE Record
  <2>1. UNCHANGED <<local, saved, name, cpos, dst, gaps, short, pc>>
        /\ pc = "off" /\ recorded < NumFiles
        /\ recorded' = recorded + 1 /\ present' = present \cup {recorded + 1}
    BY <1>3 DEF Record, disk
  <2>2. FileTypes' BY <2>1, SizesAssumption DEF FileTypes, Files
  <2> QED BY <2>1, <2>2 DEF Named, BySaved, Copied, NameOf
<1>4. CASE DropOldest
  <2>1. UNCHANGED <<local, recorded, saved, name, cpos, dst, gaps, short, pc>>
        /\ pc = "off" /\ present' \subseteq present
    BY <1>4 DEF DropOldest, disk
  <2> QED BY <2>1 DEF FileTypes, Named, BySaved, Copied, NameOf
<1> QED BY <1>1, <1>2, <1>3, <1>4

LEMMA NextCopy == CopyInv /\ [Next]_vars => CopyInv'
<1> SUFFICES ASSUME CopyInv, [Next]_vars PROVE CopyInv' OBVIOUS
<1>1. CASE UNCHANGED vars
  BY <1>1 DEF CopyInv, FileTypes, Named, BySaved, Copied, NameOf, Wanted, IsNext,
                 vars, camera, disk
<1>2. CASE Over
  BY <1>1, <1>2 DEF Over
<1> QED
  BY <1>1, <1>2, StartCopy, SaveCopy, QueryCopy, BlockCopy, OtherCopy DEF Next

-----------------------------------------------------------------------------
(* Recordings stay whole *)

\* The files of the recording that the name n tells of, and what the file g of
\* it is called.
Extent(n) == n[1] .. ((n[1] + n[3]) - 1)
Member(n, g) == <<n[1], (g - n[1]) + 1, n[3]>>

\* A merged recording was recorded to its end, and its first file, if the
\* camera has it, is saved: it is saved before the others.
Known ==
  /\ present \subseteq 1 .. recorded
  /\ \A f \in Files : f > recorded => saved[f] = NoName
  /\ \A f \in present : saved[f] # NoName =>
       /\ Extent(saved[f]) \subseteq 1 .. recorded
       /\ saved[f][1] \in present => saved[saved[f][1]] # NoName

\* While metadata is saved: the recordings of the files that remain are on the
\* camera and named alike, and what was saved of them is saved by those names;
\* and whenever the first file of such a recording is saved, all that remains
\* comes after it.
InTodo ==
  pc = "save" => \A f \in todo :
    /\ f \in present /\ saved[f] = NoName
    /\ \A g \in Extent(name[f]) :
         /\ g \in present /\ name[g] = Member(name[f], g)
         /\ g \in todo \/ saved[g] = name[g]
    /\ \A g \in todo : saved[name[f][1]] # NoName => name[f][1] < g

\* RecordingsWhole, and what is true of it while metadata is saved.
Agree ==
  \A f \in present : saved[f] # NoName =>
    \A g \in present \cap Extent(saved[f]) :
      \/ saved[f][1] \in halved
      \/ saved[g] = Member(saved[f], g)
      \/ pc = "save" /\ g \in todo /\ name[g] = Member(saved[f], g)

WholeInv == CopyInv /\ Known /\ InTodo /\ Agree

\* The file lies in the recording its name tells of.
LEMMA ExtentLemma ==
  ASSUME NEW f \in Files, NEW n, NameOf(f, n)
  PROVE  /\ n[1] \in Files /\ n[2] \in Files /\ n[3] \in Files
         /\ n[1] <= f /\ f \in Extent(n) /\ n[1] \in Extent(n)
         /\ n = Member(n, f)
<1>1. /\ n \in Files \X Files \X Files /\ n[2] <= n[3] /\ n[1] + n[2] = f + 1
  BY DEF NameOf, Names
<1>2. n = <<n[1], n[2], n[3]>> /\ n[1] \in Files /\ n[2] \in Files /\ n[3] \in Files
  BY <1>1
<1>3. n[1] \in Nat /\ n[2] \in Nat /\ n[3] \in Nat /\ n[2] >= 1 /\ n[3] >= 1 /\ f \in Nat
  BY <1>2, SizesAssumption DEF Files
<1>4. n[2] = (f - n[1]) + 1 /\ n[1] <= f /\ f <= (n[1] + n[3]) - 1
  BY <1>1, <1>3
<1>5. n = Member(n, f) BY <1>2, <1>4 DEF Member
<1>6. f \in Extent(n) /\ n[1] \in Extent(n) BY <1>3, <1>4 DEF Extent
<1> QED BY <1>2, <1>4, <1>5, <1>6

\* The names of the members of one recording span the same files.
LEMMA MemberLemma ==
  ASSUME NEW n, NEW g
  PROVE  /\ Member(n, g)[1] = n[1] /\ Member(n, g)[3] = n[3]
         /\ Extent(Member(n, g)) = Extent(n)
         /\ \A h : Member(Member(n, g), h) = Member(n, h)
<1>1. Member(n, g)[1] = n[1] /\ Member(n, g)[3] = n[3] BY DEF Member
<1> QED BY <1>1 DEF Extent, Member

\* A new recording: all its files are on the camera, none of them is in an
\* older one, and they agree on the first and the last.
LEMMA GroupLemma ==
  ASSUME present \subseteq Files, NEW f \in Unsaved,
         NEW g \in FirstOf(f) .. LastOf(f)
  PROVE  /\ g \in Unsaved
         /\ FirstOf(g) = FirstOf(f) /\ LastOf(g) = LastOf(f)
<1> DEFINE l == FirstOf(f)
           m == LastOf(f)
           IsFirst(k, x) == k <= x /\ ~Merges(k) /\ \A h \in (k + 1) .. x : Merges(h)
           IsLast(k, x) == /\ k >= x /\ ~(k + 1 \in present /\ Merges(k + 1))
                           /\ \A h \in (x + 1) .. k : Merges(h)
<1>1. f \in present /\ l # m BY DEF Unsaved
<1>2. l \in present /\ IsFirst(l, f)
  BY <1>1, FirstLemma
<1>3. m \in present /\ IsLast(m, f)
  BY <1>1, LastLemma
<1> HIDE DEF l, m
<1>4. l \in Int /\ m \in Int /\ f \in Int /\ g \in Int /\ l <= g /\ g <= m
  <2>1. present \subseteq Int BY DEF Files
  <2>2. g \in l .. m BY DEF l, m
  <2> QED BY <1>1, <1>2, <1>3, <2>1, <2>2
<1>5. \A h \in (l + 1) .. m : Merges(h)
  <2>1. \A h \in (l + 1) .. m : h \in (l + 1) .. f \/ h \in (f + 1) .. m BY <1>4
  <2> QED BY <1>2, <1>3, <2>1
<1>6. g \in present /\ saved[g] = NoName
  <2>1. CASE g > l
    <3>1. Merges(g) BY <1>4, <1>5, <2>1
    <3>2. saved[g] = NoName BY <3>1 DEF Merges
    <3>3. CASE g = m BY <1>3, <3>2, <3>3
    <3>4. CASE g < m
      <4>1. Merges(g + 1) /\ (g + 1) - 1 = g BY <1>4, <1>5, <2>1, <3>4
      <4> QED BY <3>2, <4>1 DEF Merges
    <3> QED BY <1>4, <3>3, <3>4
  <2>2. CASE g = l
    <3>1. Merges(l + 1) /\ (l + 1) - 1 = l BY <1>1, <1>4, <1>5, <2>2
    <3> QED BY <1>2, <2>2, <3>1 DEF Merges
  <2> QED BY <1>4, <2>1, <2>2
<1>7. IsFirst(l, g) /\ IsLast(m, g)
  <2>1. \A h \in (l + 1) .. g : h \in (l + 1) .. m BY <1>4
  <2>2. \A h \in (g + 1) .. m : h \in (l + 1) .. m BY <1>4
  <2> QED BY <1>2, <1>3, <1>4, <1>5, <2>1, <2>2
<1>8. FirstOf(g) = l
  <2> DEFINE k == FirstOf(g)
  <2>1. k \in present /\ IsFirst(k, g) BY <1>6, FirstLemma
  <2> HIDE DEF k
  <2>2. k \in Int BY <2>1 DEF Files
  <2>3. ~(l < k) /\ ~(k < l)
    <3>1. ASSUME l < k PROVE FALSE
      <4>1. k \in (l + 1) .. g BY <1>4, <2>1, <2>2, <3>1
      <4> QED BY <1>7, <2>1, <4>1
    <3>2. ASSUME k < l PROVE FALSE
      <4>1. l \in (k + 1) .. g BY <1>4, <2>2, <3>2
      <4> QED BY <1>7, <2>1, <4>1
    <3> QED BY <3>1, <3>2
  <2>4. k = l BY <1>4, <2>2, <2>3
  <2> QED BY <2>4 DEF k
<1>9. LastOf(g) = m
  <2> DEFINE k == LastOf(g)
  <2>1. k \in present /\ IsLast(k, g) BY <1>6, LastLemma
  <2> HIDE DEF k
  <2>2. k \in Int BY <2>1 DEF Files
  <2>3. ~(m < k) /\ ~(k < m)
    <3>1. ASSUME m < k PROVE FALSE
      <4>1. m + 1 \in (g + 1) .. k BY <1>4, <2>2, <3>1
      <4>2. Merges(m + 1) BY <2>1, <4>1
      <4>3. m + 1 \in present
        <5>1. CASE m + 1 = k BY <2>1, <5>1
        <5>2. CASE m + 1 < k
          <6>1. m + 2 \in (g + 1) .. k /\ (m + 2) - 1 = m + 1 BY <1>4, <2>2, <5>2
          <6>2. Merges(m + 2) BY <2>1, <6>1
          <6> QED BY <6>1, <6>2 DEF Merges
        <5> QED BY <1>4, <2>2, <3>1, <5>1, <5>2
      <4> QED BY <1>7, <4>2, <4>3
    <3>2. ASSUME k < m PROVE FALSE
      <4>1. k + 1 \in (g + 1) .. m BY <1>4, <2>1, <2>2, <3>2
      <4>2. Merges(k + 1) BY <1>7, <4>1
      <4>3. k + 1 \in present
        <5>1. CASE k + 1 = m BY <1>3, <5>1
        <5>2. CASE k + 1 < m
          <6>1. k + 2 \in (g + 1) .. m /\ (k + 2) - 1 = k + 1 BY <1>4, <2>1, <2>2, <5>2
          <6>2. Merges(k + 2) BY <1>7, <6>1
          <6> QED BY <6>1, <6>2 DEF Merges
        <5> QED BY <1>4, <2>2, <3>2, <5>1, <5>2
      <4> QED BY <2>1, <4>2, <4>3
    <3> QED BY <3>1, <3>2
  <2>4. k = m BY <1>4, <2>2, <2>3
  <2> QED BY <2>4 DEF k
<1>10. g \in Unsaved BY <1>1, <1>6, <1>8, <1>9 DEF Unsaved, l, m
<1> QED BY <1>8, <1>9, <1>10 DEF l, m

LEMMA InitWhole == Init => WholeInv
<1> SUFFICES ASSUME Init PROVE WholeInv OBVIOUS
<1>1. Known /\ InTodo /\ Agree BY SizesAssumption DEF Init, Known, InTodo, Agree
<1> QED BY <1>1, InitCopy DEF WholeInv

LEMMA StartWhole == WholeInv /\ Start => (Known /\ InTodo /\ Agree)'
<1> SUFFICES ASSUME WholeInv, Start PROVE (Known /\ InTodo /\ Agree)' OBVIOUS
<1>1. /\ UNCHANGED <<recorded, present, saved, halved>> /\ pc = "off" /\ pc' = "save"
      /\ name' = [f \in Files |-> IF f \in present THEN Newfn(f) ELSE NoName]
      /\ todo' = Unsaved
  BY DEF Start, camera
<1>2. CopyInv /\ Known /\ Agree BY DEF WholeInv
<1>3. present \subseteq Files BY <1>2 DEF CopyInv, FileTypes
<1>4. Known' BY <1>1, <1>2 DEF Known, Extent
<1>5. Agree' BY <1>1, <1>2 DEF Agree, Extent, Member
<1>6. ASSUME NEW f \in Unsaved
      PROVE  /\ f \in present /\ saved[f] = NoName
             /\ name'[f] = <<FirstOf(f), (f - FirstOf(f)) + 1, (LastOf(f) - FirstOf(f)) + 1>>
             /\ Extent(name'[f]) = FirstOf(f) .. LastOf(f)
             /\ FirstOf(f) \in Unsaved
  <2>1. f \in present /\ saved[f] = NoName BY DEF Unsaved
  <2>2. name'[f] = <<FirstOf(f), (f - FirstOf(f)) + 1, (LastOf(f) - FirstOf(f)) + 1>>
    BY <1>1, <1>3, <2>1 DEF Newfn
  <2>3. FirstOf(f) \in present /\ LastOf(f) \in present /\ FirstOf(f) <= f /\ LastOf(f) >= f
    BY <1>3, <2>1, FirstLemma, LastLemma
  <2>4. FirstOf(f) \in Int /\ LastOf(f) \in Int /\ f \in Int
    <3>1. present \subseteq Int BY <1>3 DEF Files
    <3> QED BY <2>1, <2>3, <3>1
  <2>5. (FirstOf(f) + ((LastOf(f) - FirstOf(f)) + 1)) - 1 = LastOf(f) BY <2>4
  <2>6. FirstOf(f) \in FirstOf(f) .. LastOf(f) BY <2>3, <2>4
  <2> QED BY <1>3, <2>1, <2>2, <2>5, <2>6, GroupLemma DEF Extent
<1>7. ASSUME NEW f \in Unsaved, NEW g \in Extent(name'[f])
      PROVE  g \in present /\ name'[g] = Member(name'[f], g) /\ g \in Unsaved
  <2>1. g \in Unsaved /\ FirstOf(g) = FirstOf(f) /\ LastOf(g) = LastOf(f)
    BY <1>3, <1>6, GroupLemma
  <2> QED BY <1>6, <2>1 DEF Member
<1>8. ASSUME NEW f \in Unsaved PROVE saved[name'[f][1]] = NoName
  BY <1>6 DEF Unsaved
<1>9. InTodo'
  <2> SUFFICES ASSUME NEW f \in todo'
               PROVE  /\ f \in present' /\ saved'[f] = NoName
                      /\ \A g \in Extent(name'[f]) :
                           /\ g \in present' /\ name'[g] = Member(name'[f], g)
                           /\ g \in todo' \/ saved'[g] = name'[g]
                      /\ \A g \in todo' : saved'[name'[f][1]] # NoName => name'[f][1] < g
    BY DEF InTodo, Extent, Member
  <2> QED BY <1>1, <1>6, <1>7, <1>8
<1> QED BY <1>4, <1>5, <1>9

LEMMA SaveWhole == WholeInv /\ SaveMeta => (Known /\ InTodo /\ Agree)'
<1> SUFFICES ASSUME WholeInv, SaveMeta PROVE (Known /\ InTodo /\ Agree)' OBVIOUS
<1> PICK h \in todo : /\ IsNext(h, todo) /\ saved' = [saved EXCEPT ![h] = name[h]]
                      /\ todo' = todo \ {h}
  BY DEF SaveMeta
<1>1. UNCHANGED <<recorded, present, name, pc, halved>> /\ pc = "save"
  BY DEF SaveMeta, camera
<1>2. CopyInv /\ Known /\ InTodo /\ Agree BY DEF WholeInv
<1>3. \A f \in todo : f \in present /\ f \in Files /\ saved[f] = NoName /\ NameOf(f, name[f])
  BY <1>1, <1>2 DEF CopyInv, FileTypes, Named, InTodo
<1>4. saved' = [f \in Files |-> IF f = h THEN name[h] ELSE saved[f]]
  BY <1>2 DEF CopyInv, FileTypes
<1>5. name[h] # NoName BY <1>3, NoNameLemma DEF NameOf
<1>6. /\ saved'[h] = name[h] /\ saved[h] = NoName
      /\ \A f \in present : f # h => saved'[f] = saved[f]
  BY <1>2, <1>3, <1>4 DEF CopyInv, FileTypes
<1>7. \A f \in todo : h <= f BY DEF IsNext
<1>8. \A g \in Extent(name[h]) : /\ g \in present /\ name[g] = Member(name[h], g)
                                 /\ g \in todo \/ saved[g] = name[g]
  BY <1>1, <1>2 DEF InTodo
<1>9. /\ name[h][1] \in Files /\ name[h][3] \in Files
      /\ name[h][1] <= h /\ name[h][1] \in Extent(name[h])
  BY <1>3, ExtentLemma
<1>10. Known'
  <2>1. \A f \in Files : f > recorded => saved'[f] = NoName
    <3>1. present \subseteq 1 .. recorded BY <1>2 DEF Known
    <3>2. ~(h > recorded) BY <1>2, <1>3, <3>1 DEF CopyInv, FileTypes
    <3> QED BY <1>2, <1>4, <3>2 DEF Known
  <2>2. ASSUME NEW f \in present, saved'[f] # NoName
        PROVE  /\ Extent(saved'[f]) \subseteq 1 .. recorded
               /\ saved'[f][1] \in present => saved'[saved'[f][1]] # NoName
    <3>1. CASE f = h
      <4>1. Extent(name[h]) \subseteq 1 .. recorded BY <1>2, <1>8 DEF Known
      <4>2. saved'[name[h][1]] # NoName
        <5> DEFINE l == name[h][1]
        <5>1. CASE l = h BY <1>5, <1>6, <5>1
        <5>2. CASE l # h
          <6>1. l \notin todo
            <7>1. h \in Int /\ l \in Int /\ l <= h BY <1>3, <1>9 DEF Files
            <7> QED BY <1>7, <5>2, <7>1
          <6>2. saved[l] = name[l] /\ l \in present BY <1>8, <1>9, <6>1
          <6>3. name[l] # NoName
            BY <1>1, <1>2, <6>2, NoNameLemma DEF CopyInv, Named, NameOf
          <6> QED BY <1>6, <5>2, <6>2, <6>3
        <5> QED BY <5>1, <5>2
      <4> QED BY <1>6, <3>1, <4>1, <4>2
    <3>2. CASE f # h
      <4>1. saved'[f] = saved[f] BY <1>6, <3>2
      <4>2. /\ Extent(saved[f]) \subseteq 1 .. recorded
            /\ saved[f][1] \in present => saved[saved[f][1]] # NoName
        BY <1>2, <2>2, <4>1 DEF Known
      <4> QED BY <1>5, <1>6, <4>1, <4>2
    <3> QED BY <3>1, <3>2
  <2> QED BY <1>1, <1>2, <2>1, <2>2 DEF Known, Extent
<1>11. InTodo'
  <2>1. ASSUME NEW f \in todo, f # h, NEW g \in Extent(name[f])
        PROVE  /\ g \in present /\ name[g] = Member(name[f], g)
               /\ g \in todo' \/ saved'[g] = name[g]
    <3>1. /\ g \in present /\ name[g] = Member(name[f], g)
          /\ g \in todo \/ saved[g] = name[g]
      BY <1>1, <1>2 DEF InTodo
    <3> QED BY <1>6, <3>1
  <2>2. ASSUME NEW f \in todo, f # h, NEW g \in todo, g # h, saved'[name[f][1]] # NoName
        PROVE  name[f][1] < g
    <3> DEFINE l == name[f][1]
    <3>1. l \in Files BY <1>3, ExtentLemma
    <3>2. CASE l = h
      <4>1. h <= g /\ h \in Int /\ g \in Int BY <1>3, <1>7 DEF Files
      <4> QED BY <2>2, <3>2, <4>1
    <3>3. CASE l # h
      <4>1. saved[l] # NoName BY <1>4, <2>2, <3>1, <3>3
      <4> QED BY <1>1, <1>2, <4>1 DEF InTodo
    <3> QED BY <3>2, <3>3
  <2> SUFFICES ASSUME NEW f \in todo'
               PROVE  /\ f \in present' /\ saved'[f] = NoName
                      /\ \A g \in Extent(name'[f]) :
                           /\ g \in present' /\ name'[g] = Member(name'[f], g)
                           /\ g \in todo' \/ saved'[g] = name'[g]
                      /\ \A g \in todo' : saved'[name'[f][1]] # NoName => name'[f][1] < g
    BY DEF InTodo, Extent, Member
  <2> QED BY <1>1, <1>3, <1>6, <2>1, <2>2
<1>12. Agree'
  <2> SUFFICES ASSUME NEW f \in present, saved'[f] # NoName,
                      NEW g \in present \cap Extent(saved'[f]), saved'[f][1] \notin halved
               PROVE  \/ saved'[g] = Member(saved'[f], g)
                      \/ g \in todo' /\ name[g] = Member(saved'[f], g)
    BY <1>1 DEF Agree, Extent, Member
  <2>1. CASE f = h
    <3>1. saved'[f] = name[h] /\ g \in Extent(name[h]) BY <1>6, <2>1
    <3>2. name[g] = Member(name[h], g) /\ (g \in todo \/ saved[g] = name[g])
      BY <1>8, <3>1
    <3> QED BY <1>6, <3>1, <3>2
  <2>2. CASE f # h
    <3>1. saved'[f] = saved[f] BY <1>6, <2>2
    <3>2. \/ saved[g] = Member(saved[f], g)
          \/ g \in todo /\ name[g] = Member(saved[f], g)
      BY <1>2, <3>1 DEF Agree
    <3>3. CASE g = h
      <4>1. saved[g] # Member(saved[f], g)
        <5>1. NameOf(f, saved[f]) BY <1>2, <3>1 DEF CopyInv, FileTypes, Named
        <5>2. saved[f][3] \in Files
          <6>1. f \in Files BY <1>2 DEF CopyInv, FileTypes
          <6> QED BY <5>1, <6>1, ExtentLemma
        <5>3. Member(saved[f], g)[3] # NoName[3]
          BY <5>2, MemberLemma, SizesAssumption DEF NoName, Files
        <5> QED BY <1>6, <3>3, <5>3
      <4> QED BY <1>6, <3>1, <3>2, <3>3, <4>1
    <3>4. CASE g # h BY <1>6, <3>1, <3>2, <3>4
    <3> QED BY <3>3, <3>4
  <2> QED BY <2>1, <2>2
<1> QED BY <1>10, <1>11, <1>12

\* A run that is killed while it saves a recording has saved its first file:
\* the file that would have been next is a later one of the same recording.
LEMMA ExitWhole == WholeInv /\ Exit => (Known /\ InTodo /\ Agree)'
<1> SUFFICES ASSUME WholeInv, Exit PROVE (Known /\ InTodo /\ Agree)' OBVIOUS
<1>1. UNCHANGED <<recorded, present, saved>> /\ pc' = "off" /\ halved' = halved \cup Half
  BY DEF Exit, camera
<1>2. CopyInv /\ Known /\ InTodo /\ Agree BY DEF WholeInv
<1>3. Known' BY <1>1, <1>2 DEF Known, Extent
<1>4. InTodo' BY <1>1 DEF InTodo
<1>5. ASSUME NEW f \in present, saved[f] # NoName, NEW g \in present \cap Extent(saved[f]),
             pc = "save", g \in todo, name[g] = Member(saved[f], g)
      PROVE  saved[f][1] \in Half
  <2> DEFINE l == name[g][1]
  <2>1. \A k \in todo : k \in present /\ k \in Files /\ saved[k] = NoName /\ NameOf(k, name[k])
    BY <1>2, <1>5 DEF CopyInv, FileTypes, Named, InTodo
  <2>2. l = saved[f][1] BY <1>5, MemberLemma
  <2>3. l \in Files /\ l <= g /\ l \in Extent(name[g]) /\ g \in Extent(name[g])
    BY <1>5, <2>1, ExtentLemma
  <2>4. l \in present BY <1>2, <1>5, <2>3 DEF InTodo
  <2>5. saved[l] # NoName BY <1>2, <1>5, <2>2, <2>4 DEF Known
  <2>6. todo \in SUBSET Nat /\ todo # {} BY <1>5, <2>1 DEF Files
  <2>7. PICK h \in todo : \A k \in todo : h <= k BY <2>6, Least
  <2>8. l < h BY <1>2, <1>5, <2>5 DEF InTodo
  <2>9. h \in Extent(name[g])
    <3>1. h <= g BY <1>5, <2>7
    <3>2. h \in Int /\ g \in Int /\ l \in Int BY <1>5, <2>1, <2>3 DEF Files
    <3>3. g <= (l + name[g][3]) - 1 BY <2>3 DEF Extent
    <3>4. name[g][3] \in Int
      <4>1. name[g][3] \in Files BY <1>5, <2>1, ExtentLemma
      <4> QED BY <4>1 DEF Files
    <3>5. h \in l .. ((l + name[g][3]) - 1) BY <2>8, <3>1, <3>2, <3>3, <3>4
    <3> QED BY <3>5 DEF Extent
  <2>10. name[h] = Member(name[g], h) BY <1>2, <1>5, <2>9 DEF InTodo
  <2>11. name[h][1] = l /\ name[h][2] = (h - l) + 1 BY <2>10 DEF Member
  <2>12. name[h][2] > 1
    <3>1. h \in Int /\ l \in Int BY <2>1, <2>3 DEF Files
    <3> QED BY <2>8, <2>11, <3>1
  <2> QED BY <2>2, <2>7, <2>11, <2>12 DEF Half, IsNext
<1>6. Agree'
  <2> SUFFICES ASSUME NEW f \in present, saved[f] # NoName, NEW g \in present \cap Extent(saved[f])
               PROVE  saved[f][1] \in halved' \/ saved[g] = Member(saved[f], g)
    BY <1>1 DEF Agree, Extent, Member
  <2>1. \/ saved[f][1] \in halved \/ saved[g] = Member(saved[f], g)
        \/ pc = "save" /\ g \in todo /\ name[g] = Member(saved[f], g)
    BY <1>2 DEF Agree
  <2> QED BY <1>1, <1>5, <2>1
<1> QED BY <1>3, <1>4, <1>6

LEMMA OtherWhole ==
  WholeInv /\ (Query \/ CopyBlock \/ Finish \/ Record \/ DropOldest)
    => (Known /\ InTodo /\ Agree)'
<1> SUFFICES ASSUME WholeInv, Query \/ CopyBlock \/ Finish \/ Record \/ DropOldest
             PROVE  (Known /\ InTodo /\ Agree)'
  OBVIOUS
<1>1. CopyInv /\ Known /\ Agree BY DEF WholeInv
<1>2. /\ saved = [f \in Files |-> saved[f]] /\ present \subseteq Files
      /\ recorded \in 0 .. NumFiles
      /\ \A f \in present : saved[f] # NoName => NameOf(f, saved[f])
  BY <1>1 DEF CopyInv, FileTypes, Named
<1>3. \A f \in present : saved[f] # NoName => saved[f][1] <= f /\ saved[f][1] \in Files
  BY <1>2, ExtentLemma
<1>4. CASE Query
  <2>1. /\ UNCHANGED <<recorded, present, name, halved>> /\ todo = {} /\ pc' = "copy"
        /\ saved' = [f \in Files |-> IF f \in present THEN saved[f] ELSE NoName]
    BY <1>4 DEF Query, camera
  <2>2. \A f \in present : saved'[f] = saved[f] BY <1>2, <2>1
  <2>3. Known'
    <3>1. \A f \in Files : f > recorded => saved'[f] = NoName BY <1>1, <2>1 DEF Known
    <3>2. \A f \in present : saved'[f] # NoName =>
            /\ Extent(saved'[f]) \subseteq 1 .. recorded
            /\ saved'[f][1] \in present => saved'[saved'[f][1]] # NoName
      BY <1>1, <2>2 DEF Known
    <3>3. present \subseteq 1 .. recorded BY <1>1 DEF Known
    <3>4. UNCHANGED <<recorded, present>> BY <2>1
    <3> QED BY <3>1, <3>2, <3>3, <3>4 DEF Known, Extent
  <2>4. Agree' BY <1>1, <2>1, <2>2 DEF Agree, Extent, Member
  <2> QED BY <2>1, <2>3, <2>4 DEF InTodo
<1>5. CASE CopyBlock \/ Finish
  <2>1. UNCHANGED <<recorded, present, saved, halved>> /\ pc = "copy" /\ pc' # "save"
    BY <1>5 DEF CopyBlock, Finish, camera
  <2> QED BY <1>1, <2>1 DEF Known, InTodo, Agree, Extent, Member
<1>6. CASE Record
  <2>1. /\ UNCHANGED <<saved, name, pc, halved>> /\ pc = "off" /\ recorded < NumFiles
        /\ recorded' = recorded + 1 /\ present' = present \cup {recorded + 1}
    BY <1>6 DEF Record
  <2>2. recorded + 1 \in Files /\ saved[recorded + 1] = NoName
    BY <1>1, <1>2, <2>1, SizesAssumption DEF Known, Files
  <2>3. \A f \in present : f <= recorded BY <1>1, <1>2 DEF Known
  <2>4. \A f \in present : saved[f] # NoName =>
          recorded + 1 \notin Extent(saved[f]) /\ saved[f][1] # recorded + 1
    <3>1. recorded + 1 \notin 1 .. recorded BY <1>2
    <3>2. ASSUME NEW f \in present, saved[f] # NoName PROVE saved[f][1] # recorded + 1
      <4>1. f <= recorded /\ f \in Int /\ recorded \in Int BY <1>2, <2>3 DEF Files
      <4>2. saved[f][1] <= f BY <1>3, <3>2
      <4> QED BY <4>1, <4>2
    <3> QED BY <1>1, <3>1, <3>2 DEF Known
  <2>5. Known'
    <3>1. 1 .. recorded \subseteq 1 .. (recorded + 1) BY <1>2
    <3>2. present' \subseteq 1 .. (recorded + 1) BY <1>1, <1>2, <2>1, <3>1 DEF Known
    <3>3. \A f \in Files : f > recorded + 1 => saved[f] = NoName
      <4>1. \A f \in Files : f > recorded + 1 => f > recorded BY <1>2 DEF Files
      <4> QED BY <1>1, <4>1 DEF Known
    <3>4. ASSUME NEW f \in present', saved[f] # NoName
          PROVE  /\ Extent(saved[f]) \subseteq 1 .. (recorded + 1)
                 /\ saved[f][1] \in present' => saved[saved[f][1]] # NoName
      <4>1. f \in present BY <2>1, <2>2, <3>4
      <4> QED BY <1>1, <2>1, <2>4, <3>1, <3>4, <4>1 DEF Known
    <3> QED BY <2>1, <3>2, <3>3, <3>4 DEF Known, Extent
  <2>6. Agree'
    <3> SUFFICES ASSUME NEW f \in present', saved[f] # NoName,
                        NEW g \in present' \cap Extent(saved[f])
                 PROVE  saved[f][1] \in halved \/ saved[g] = Member(saved[f], g)
      BY <2>1 DEF Agree, Extent, Member
    <3>1. f \in present BY <2>1, <2>2
    <3>2. g \in present BY <2>1, <2>4, <3>1
    <3> QED BY <1>1, <2>1, <3>1, <3>2 DEF Agree
  <2> QED BY <2>1, <2>5, <2>6 DEF InTodo
<1>7. CASE DropOldest
  <2>1. UNCHANGED <<recorded, saved, name, pc, halved>> /\ pc = "off" /\ present' \subseteq present
    BY <1>7 DEF DropOldest
  <2> QED BY <1>1, <2>1 DEF Known, InTodo, Agree, Extent, Member
<1> QED BY <1>4, <1>5, <1>6, <1>7

LEMMA NextWhole == WholeInv /\ [Next]_vars => WholeInv'
<1> SUFFICES ASSUME WholeInv, [Next]_vars PROVE WholeInv' OBVIOUS
<1>1. CopyInv' BY NextCopy DEF WholeInv
<1>2. CASE UNCHANGED vars \/ Over
  <2>1. UNCHANGED <<recorded, present, saved, pc, name, todo, halved>>
    BY <1>2 DEF Over, vars, camera
  <2> QED BY <1>1, <2>1 DEF WholeInv, Known, InTodo, Agree, Extent, Member
<1>3. CASE Start \/ SaveMeta \/ Exit
  BY <1>1, <1>3, StartWhole, SaveWhole, ExitWhole DEF WholeInv
<1>4. CASE Query \/ CopyBlock \/ Finish \/ Record \/ DropOldest
  BY <1>1, <1>4, OtherWhole DEF WholeInv
<1> QED BY <1>2, <1>3, <1>4 DEF Next

-----------------------------------------------------------------------------
(* What follows *)

\* The files of a merged recording agree on where it begins and how many they
\* are, whatever is recorded, dropped or killed, unless a run was killed in the
\* middle of saving just that recording.
THEOREM RecordingsStayWhole == Spec => []RecordingsWhole
<1>1. ASSUME WholeInv PROVE RecordingsWhole
  BY <1>1 DEF WholeInv, Agree, RecordingsWhole, Extent, Member
<1> QED BY <1>1, InitWhole, NextWhole, PTL DEF Spec

\* A file of a merged recording keeps its name as long as the camera has it,
\* and every run copies it under that name, wherever runs are killed.
THEOREM NamesKept == Spec => NameKept
<1> DEFINE Kept == \A f \in present \cap present' : saved[f] # NoName =>
                     saved'[f] = saved[f] /\ name'[f] \in {NoName, saved[f]}
<1>1. ASSUME CopyInv, [Next]_vars PROVE [Kept]_vars
  <2>1. /\ present \subseteq Files
        /\ \A f \in present : saved[f] # NoName => name[f] \in {NoName, saved[f]}
    BY <1>1 DEF CopyInv, FileTypes, BySaved
  <2>2. CASE Start
    <3>1. saved' = saved /\ \A f \in present : name'[f] = Newfn(f)
      BY <2>1, <2>2 DEF Start
    <3> QED BY <3>1 DEF Newfn
  <2>3. CASE SaveMeta
    <3> PICK h \in todo : saved' = [saved EXCEPT ![h] = name[h]] BY <2>3 DEF SaveMeta
    <3>1. name' = name /\ pc = "save" BY <2>3 DEF SaveMeta
    <3>2. \A f \in present : saved[f] # NoName => name[f] = saved[f]
      BY <1>1, <3>1 DEF CopyInv, BySaved
    <3>3. saved' = [f \in Files |-> IF f = h THEN name[f] ELSE saved[f]]
      BY <1>1, <3>1 DEF CopyInv, FileTypes
    <3> QED BY <2>1, <3>1, <3>2, <3>3
  <2>4. CASE Query
    <3>1. /\ saved' = [f \in Files |-> IF f \in present THEN saved[f] ELSE NoName]
          /\ name' = name
      BY <2>4 DEF Query
    <3> QED BY <2>1, <3>1
  <2>5. CASE Exit
    <3>1. saved' = saved /\ name' = [f \in Files |-> NoName] BY <2>5 DEF Exit
    <3> QED BY <2>1, <3>1
  <2>6. CASE CopyBlock \/ Finish \/ Record \/ DropOldest \/ Over \/ UNCHANGED vars
    <3>1. saved' = saved /\ name' = name
      BY <2>6 DEF CopyBlock, Finish, Record, DropOldest, Over, vars
    <3> QED BY <2>1, <3>1
  <2> QED BY <1>1, <2>2, <2>3, <2>4, <2>5, <2>6 DEF Next
<1> QED BY <1>1, InitCopy, NextCopy, PTL DEF Spec, NameKept

\* A run that ends well leaves every file at the destination, each under a
\* name of its own, and nothing else if the destination deletes: an upload
\* whole, whatever earlier runs left, and a copy on a disk whole by its size
\* unless this run stored a block of it in part.
THEOREM CopyComplete == Spec => []CompleteOnSuccess
<1>1. ASSUME CopyInv PROVE CompleteOnSuccess
  <2> SUFFICES ASSUME pc = "done"
               PROVE  /\ \A f \in present :
                           /\ dst[name[f]] = Size \/ (local /\ name[f] \in short)
                           /\ name[f] \in gaps => local
                      /\ Cardinality(Wanted) = Cardinality(present)
                      /\ Delete /\ ~local => \A n \in Names : dst[n] > 0 => n \in Wanted
    BY DEF CompleteOnSuccess
  <2>1. /\ \A f \in present : /\ dst[name[f]] = Size \/ (local /\ name[f] \in short)
                              /\ name[f] \in gaps => local
        /\ Delete /\ ~local => \A n \in Names : dst[n] > 0 => n \in Wanted
    BY <1>1 DEF CopyInv, Copied
  <2>2. Cardinality(Wanted) = Cardinality(present)
    <3> DEFINE b == [f \in present |-> name[f]]
    <3>1. \A f, g \in present : name[f] = name[g] => f = g
      BY <1>1, NameLemma DEF CopyInv, Named, FileTypes
    <3>2. b \in Bijection(present, Wanted)
      BY <3>1 DEF Bijection, Injection, Surjection, IsInjective, Wanted
    <3>3. IsFiniteSet(present)
      <4>1. IsFiniteSet(Files) BY FS_Interval, SizesAssumption DEF Files
      <4>2. present \in SUBSET Files BY <1>1 DEF CopyInv, FileTypes
      <4> QED BY <4>1, <4>2, FS_Subset
    <3> QED BY <3>2, <3>3, FS_Bijection DEF ExistsBijection
  <2> QED BY <2>1, <2>2
<1> QED BY <1>1, InitCopy, NextCopy, PTL DEF Spec

=============================================================================
