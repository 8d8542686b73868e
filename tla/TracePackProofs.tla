-------------------------- MODULE TracePackProofs --------------------------
(***************************************************************************)
(* A trace can be replayed at every moment of every sequence of packs that  *)
(* are killed anywhere, for every recording that satisfies PackAssumption.  *)
(***************************************************************************)
EXTENDS TracePack, TLAPS

Fields == {"pc", "info", "rep", "todo", "new", "index", "del"}

(* The files are as they were. *)
SameFiles == fs' = fs /\ data' = data /\ mmaps' = mmaps /\ want' = want

(* What the invariant says of the files alone. *)
LEMMA FilesFacts ==
  ASSUME IndInv
  PROVE  /\ fs \in [Names -> Inodes \cup {NoFile}] /\ DOMAIN data = Inodes
         /\ DOMAIN want = DOMAIN mmaps /\ DOMAIN pk = Fields /\ pk.index \in Nat
         /\ \A n \in Names : IsName(n) /\ n.d # "trace0"
         /\ \A i \in 0 .. MaxPack : PackName(i) \in Names
         /\ \A i \in DOMAIN mmaps :
              mmaps[i] \in Names /\ fs[mmaps[i]] # NoFile /\ data[fs[mmaps[i]]] = want[i]
         /\ \A n, m \in Names : fs[n] = fs[m] /\ fs[n] # NoFile /\ Own(n) => m.d = "trace"
  BY DEF IndInv, FilesOK, StaysReplayable, OwnApart, Fields

(* A step that only the command notices keeps what is said of the files. *)
LEMMA SameFilesSafe ==
  ASSUME IndInv, SameFiles, DOMAIN pk' = Fields, pk'.index \in Nat
  PROVE  FilesOK' /\ OwnApart' /\ StaysReplayable'
<1>1. FilesOK'
  BY DEF IndInv, FilesOK, SameFiles, Names, Fields
<1>2. OwnApart'
  BY DEF IndInv, OwnApart, SameFiles, Names
<1>3. StaysReplayable'
  BY DEF IndInv, StaysReplayable, SameFiles, Names
<1> QED BY <1>1, <1>2, <1>3

(* The fields of the command that is not at work. *)
LEMMA IdleFields ==
  /\ DOMAIN Idle = Fields /\ Idle.pc = "idle" /\ Idle.index \in Nat
  /\ \A p : DOMAIN [Idle EXCEPT !.pc = p] = Fields /\ [Idle EXCEPT !.pc = p].pc = p
           /\ [Idle EXCEPT !.pc = p].index \in Nat
  BY DEF Idle, Fields

(* Where the command has nothing in hand, its files are all there is to say. *)
LEMMA RestingSafe ==
  ASSUME FilesOK', OwnApart', StaysReplayable', pk'.pc \in {"idle", "failed"}
  PROVE  IndInv'
  BY DEF IndInv, InfoAgrees, Working, RepAgrees, CopyIsNew, TempAgrees, Renamed, RetainAgrees,
    DeletesOthers

(* A killed or repeated command starts anew. *)
LEMMA RestartSafe ==
  ASSUME IndInv, Crash \/ Again
  PROVE  IndInv'
<1>1. SameFiles /\ pk' = Idle
  BY DEF Crash, Again, SameFiles
<1> QED BY <1>1, SameFilesSafe, RestingSafe, IdleFields

(* The files of the regions are found, and hashed. *)
LEMMA GatherSafe ==
  ASSUME IndInv, gather_file_info
  PROVE  IndInv'
<1>1. PICK used : used = {mmaps[i] : i \in DOMAIN mmaps}
  OBVIOUS
<1>2. ~ \E n \in used : n \notin Names \/ fs[n] = NoFile
  BY <1>1, FilesFacts
<1>3. SameFiles /\ pk' = [Idle EXCEPT !.pc = "gathered", !.info = [n \in used |-> data[fs[n]]]]
  BY <1>1, <1>2 DEF gather_file_info, SameFiles
<1>4. pk'.pc = "gathered" /\ pk'.info = [n \in used |-> data[fs[n]]] /\ DOMAIN pk' = Fields
      /\ pk'.index \in Nat
  BY <1>3 DEF Idle, Fields
<1>5. FilesOK' /\ OwnApart' /\ StaysReplayable'
  BY <1>3, <1>4, SameFilesSafe
<1>6. InfoAgrees'
  <2>1. DOMAIN pk'.info = {mmaps'[i] : i \in DOMAIN mmaps'}
    BY <1>1, <1>3, <1>4 DEF SameFiles
  <2>2. \A i \in DOMAIN mmaps' : pk'.info[mmaps'[i]] = want'[i]
    BY <1>1, <1>3, <1>4, FilesFacts DEF SameFiles
  <2> QED BY <2>1, <2>2 DEF InfoAgrees
<1> QED BY <1>4, <1>5, <1>6
        DEF IndInv, RepAgrees, CopyIsNew, TempAgrees, Renamed, RetainAgrees, DeletesOthers

(* What the hashes are while the regions name the old files. *)
LEMMA HashesFacts ==
  ASSUME IndInv, Working
  PROVE  /\ DOMAIN pk.info = {mmaps[i] : i \in DOMAIN mmaps}
         /\ \A i \in DOMAIN mmaps : pk.info[mmaps[i]] = want[i]
         /\ \A n \in DOMAIN pk.info : n \in Names /\ fs[n] # NoFile /\ data[fs[n]] = pk.info[n]
         /\ \A i \in DOMAIN mmaps : want[i] \in Hashes
<1>1. /\ DOMAIN pk.info = {mmaps[i] : i \in DOMAIN mmaps}
      /\ \A i \in DOMAIN mmaps : pk.info[mmaps[i]] = want[i]
  BY DEF IndInv, InfoAgrees
<1>2. \A n \in DOMAIN pk.info : n \in Names /\ fs[n] # NoFile /\ data[fs[n]] = pk.info[n]
  BY <1>1, FilesFacts
<1>3. \A i \in DOMAIN mmaps : want[i] \in Hashes
  BY <1>1 DEF Hashes
<1> QED BY <1>1, <1>2, <1>3

(* A name that is in the trace directory and no hard link is the trace's own. *)
LEMMA OwnIsInTrace ==
  ASSUME IndInv, NEW n \in Names, ~is_hardlink(n), is_in_trace_dir(n)
  PROVE  Own(n)
  BY FilesFacts DEF is_hardlink, is_in_trace_dir, Own

(* Each content gets a file that has it; those to be copied are known. *)
LEMMA CanonicalSafe ==
  ASSUME IndInv, compute_canonical_mmapped_files
  PROVE  IndInv'
<1>1. pk.pc = "gathered" /\ SameFiles
  BY DEF compute_canonical_mmapped_files, SameFiles
<1>2. PICK hashes : hashes = Hashes
  OBVIOUS
<1>3. PICK rep \in [hashes -> DOMAIN pk.info] :
        /\ \A h \in hashes : rep[h] \in Standing(h)
        /\ pk' = [pk EXCEPT !.pc = "copy", !.rep = rep,
                    !.todo = {h \in hashes : is_hardlink(rep[h]) \/ ~is_in_trace_dir(rep[h])}]
  BY <1>2 DEF compute_canonical_mmapped_files, Hashes
<1>4. DOMAIN pk = Fields /\ pk.index \in Nat
  BY FilesFacts
<1>5. /\ DOMAIN pk' = Fields /\ pk'.pc = "copy" /\ pk'.rep = rep /\ pk'.info = pk.info
      /\ pk'.todo = {h \in hashes : is_hardlink(rep[h]) \/ ~is_in_trace_dir(rep[h])}
      /\ pk'.index \in Nat
  BY <1>3, <1>4 DEF Fields
<1>6. FilesOK' /\ OwnApart' /\ StaysReplayable'
  BY <1>1, <1>5, SameFilesSafe
<1>7. InfoAgrees'
  BY <1>1, <1>5 DEF IndInv, InfoAgrees, Working, SameFiles
<1>8. \A h \in hashes : rep[h] \in DOMAIN pk.info /\ pk.info[rep[h]] = h
  BY <1>3 DEF Standing
<1>9. RepAgrees'
  <2>1. Hashes' = hashes
    BY <1>2, <1>5 DEF Hashes
  <2>2. \A h \in hashes : /\ rep[h] \in Names /\ fs[rep[h]] # NoFile /\ data[fs[rep[h]]] = h
                          /\ h \notin pk'.todo => Own(rep[h])
    BY <1>1, <1>5, <1>8, HashesFacts, OwnIsInTrace DEF Working
  <2> QED BY <1>1, <1>3, <1>5, <2>1, <2>2 DEF RepAgrees, SameFiles, Names
<1> QED BY <1>5, <1>6, <1>7, <1>9
        DEF IndInv, CopyIsNew, TempAgrees, Renamed, RetainAgrees, DeletesOthers

(* What stands for the hashes while files are copied. *)
LEMMA RepFacts ==
  ASSUME IndInv, pk.pc \in {"copy", "fill", "written"}
  PROVE  /\ DOMAIN pk.rep = Hashes /\ pk.todo \subseteq Hashes
         /\ \A h \in Hashes :
              /\ pk.rep[h] \in Names /\ fs[pk.rep[h]] # NoFile /\ data[fs[pk.rep[h]]] = h
              /\ h \notin pk.todo => Own(pk.rep[h])
  BY DEF IndInv, RepAgrees

(* A new file takes nothing away from the others: its name and its inode     *)
(* were nobody's.                                                            *)
LEMMA CreateCopySafe ==
  ASSUME PackAssumption, IndInv, CreateCopy
  PROVE  IndInv'
<1>1. PICK i \in pk.index .. MaxPack, inode \in Inodes :
       /\ fs[PackName(i)] = NoFile
       /\ FreshInode(inode)
       /\ fs' = [fs EXCEPT ![PackName(i)] = inode]
       /\ data' = [data EXCEPT ![inode] = Partial]
       /\ pk' = [pk EXCEPT !.pc = "fill", !.new = i, !.index = i + 1]
  BY DEF CreateCopy
<1>2. pk.pc = "copy" /\ mmaps' = mmaps /\ want' = want
  BY DEF CreateCopy
<1>3. /\ fs \in [Names -> Inodes \cup {NoFile}] /\ DOMAIN data = Inodes
      /\ DOMAIN want = DOMAIN mmaps /\ DOMAIN pk = Fields /\ pk.index \in Nat
      /\ \A n \in Names : IsName(n) /\ n.d # "trace0"
      /\ \A j \in 0 .. MaxPack : PackName(j) \in Names
      /\ \A j \in DOMAIN mmaps :
           mmaps[j] \in Names /\ fs[mmaps[j]] # NoFile /\ data[fs[mmaps[j]]] = want[j]
      /\ \A n, m \in Names : fs[n] = fs[m] /\ fs[n] # NoFile /\ Own(n) => m.d = "trace"
  BY FilesFacts
<1>4. i \in Nat /\ i \in 0 .. MaxPack /\ inode \in Inodes /\ inode # NoFile
  BY <1>1, <1>3 DEF PackAssumption, Inodes, NoFile
<1>5. PICK new : new = PackName(i)
  OBVIOUS
<1>6. /\ new \in Names /\ fs[new] = NoFile /\ new.d = "trace" /\ new.k = "pack"
      /\ \A n \in Names : fs[n] # inode
  BY <1>1, <1>3, <1>4, <1>5 DEF PackName, FreshInode
<1>7. /\ Names' = Names /\ fs'[new] = inode
      /\ \A n \in Names : n # new => fs'[n] = fs[n]
  BY <1>1, <1>3, <1>5, <1>6 DEF Names
<1>8. DOMAIN data' = Inodes /\ \A k \in Inodes : k # inode => data'[k] = data[k]
  BY <1>1, <1>3
<1>9. /\ DOMAIN pk' = Fields /\ pk'.pc = "fill" /\ pk'.new = i /\ pk'.index \in Nat
      /\ pk'.rep = pk.rep /\ pk'.info = pk.info /\ pk'.todo = pk.todo
  BY <1>1, <1>3, <1>4 DEF Fields
<1>10. FilesOK'
  <2>1. fs' \in [Names -> Inodes \cup {NoFile}]
    BY <1>1, <1>3, <1>4
  <2> QED BY <1>2, <1>3, <1>7, <1>8, <1>9, <2>1 DEF FilesOK, Fields
<1>11. \A n \in Names : fs[n] # NoFile =>
         n # new /\ fs'[n] = fs[n] /\ fs[n] \in Inodes /\ data'[fs'[n]] = data[fs[n]]
  BY <1>3, <1>6, <1>7, <1>8
<1>12. StaysReplayable'
  BY <1>2, <1>3, <1>7, <1>11 DEF StaysReplayable
<1>13. OwnApart'
  <2>1. SUFFICES ASSUME NEW n \in Names, NEW m \in Names,
                        fs'[n] = fs'[m], fs'[n] # NoFile, Own(n)
                 PROVE  m.d = "trace"
    BY <1>7 DEF OwnApart
  <2>2. CASE n = new \/ m = new
    BY <2>1, <2>2, <1>6, <1>7
  <2>3. CASE n # new /\ m # new
    BY <2>1, <2>3, <1>3, <1>7
  <2> QED BY <2>2, <2>3
<1>14. Hashes' = Hashes
  BY <1>9 DEF Hashes
<1>15. /\ DOMAIN pk.rep = Hashes /\ pk.todo \subseteq Hashes
       /\ \A h \in Hashes :
            /\ pk.rep[h] \in Names /\ fs[pk.rep[h]] # NoFile /\ data[fs[pk.rep[h]]] = h
            /\ h \notin pk.todo => Own(pk.rep[h])
  BY <1>2, RepFacts
<1>16. RepAgrees'
  BY <1>7, <1>9, <1>11, <1>14, <1>15 DEF RepAgrees
<1>17. InfoAgrees'
  BY <1>2, <1>9 DEF IndInv, InfoAgrees, Working
<1>18. CopyIsNew'
  <2>1. PackName(pk'.new) = new
    BY <1>5, <1>9
  <2>2. fs'[new] # NoFile /\ \A n \in Names : fs'[n] = fs'[new] => n = new
    BY <1>4, <1>6, <1>7
  <2>3. (\A j \in DOMAIN mmaps : mmaps[j] # new) /\ (\A h \in Hashes : pk.rep[h] # new)
    BY <1>3, <1>6, <1>15
  <2> QED BY <1>2, <1>4, <1>7, <1>9, <1>14, <2>1, <2>2, <2>3 DEF CopyIsNew
<1> QED BY <1>9, <1>10, <1>12, <1>13, <1>16, <1>17, <1>18
        DEF IndInv, TempAgrees, Renamed, RetainAgrees, DeletesOthers

(* Filling the copy writes to no other file, and the copy then has the       *)
(* content it stands for.                                                    *)
LEMMA FillCopySafe ==
  ASSUME PackAssumption, IndInv, FillCopy
  PROVE  IndInv'
<1>1. pk.pc = "fill" /\ fs' = fs /\ mmaps' = mmaps /\ want' = want
  BY DEF FillCopy
<1>2. PICK new : new = PackName(pk.new)
  OBVIOUS
<1>3. PICK h \in pk.todo :
       /\ data' = [data EXCEPT ![fs[new]] = data[fs[pk.rep[h]]]]
       /\ pk' = [pk EXCEPT !.pc = "copy", !.rep[h] = new, !.todo = pk.todo \ {h}]
  BY <1>2 DEF FillCopy
<1>4. /\ fs \in [Names -> Inodes \cup {NoFile}] /\ DOMAIN data = Inodes
      /\ DOMAIN want = DOMAIN mmaps /\ DOMAIN pk = Fields /\ pk.index \in Nat
      /\ \A n \in Names : IsName(n) /\ n.d # "trace0"
      /\ \A j \in 0 .. MaxPack : PackName(j) \in Names
      /\ \A j \in DOMAIN mmaps :
           mmaps[j] \in Names /\ fs[mmaps[j]] # NoFile /\ data[fs[mmaps[j]]] = want[j]
  BY FilesFacts
<1>5. /\ DOMAIN pk.rep = Hashes /\ pk.todo \subseteq Hashes
      /\ \A g \in Hashes :
           /\ pk.rep[g] \in Names /\ fs[pk.rep[g]] # NoFile /\ data[fs[pk.rep[g]]] = g
           /\ g \notin pk.todo => Own(pk.rep[g])
  BY <1>1, RepFacts
<1>6. /\ pk.new \in 0 .. MaxPack /\ fs[new] # NoFile
      /\ \A n \in Names : fs[n] = fs[new] => n = new
      /\ \A j \in DOMAIN mmaps : mmaps[j] # new
      /\ \A g \in Hashes : pk.rep[g] # new
  BY <1>1, <1>2 DEF IndInv, CopyIsNew
<1>7. new \in Names /\ Own(new) /\ fs[new] \in Inodes
  BY <1>2, <1>4, <1>6 DEF PackName, Own
<1>8. /\ DOMAIN pk' = Fields /\ pk'.pc = "copy" /\ pk'.index = pk.index
      /\ pk'.rep = [pk.rep EXCEPT ![h] = new] /\ pk'.info = pk.info
      /\ pk'.todo = pk.todo \ {h}
  BY <1>3, <1>4 DEF Fields
<1>9. /\ DOMAIN data' = Inodes /\ data'[fs[new]] = h
      /\ \A n \in Names : n # new => (fs[n] \in Inodes => data'[fs[n]] = data[fs[n]])
  BY <1>3, <1>4, <1>5, <1>6, <1>7
<1>10. FilesOK'
  BY <1>1, <1>4, <1>8, <1>9 DEF FilesOK, Fields, Names
<1>11. OwnApart'
  BY <1>1 DEF IndInv, OwnApart, Names
<1>12. StaysReplayable'
  BY <1>1, <1>4, <1>6, <1>9 DEF StaysReplayable, Names
<1>13. InfoAgrees'
  BY <1>1, <1>8 DEF IndInv, InfoAgrees, Working
<1>14. Hashes' = Hashes
  BY <1>8 DEF Hashes
<1>15. RepAgrees'
  <2>1. DOMAIN pk'.rep = Hashes
    BY <1>5, <1>8
  <2>2. ASSUME NEW g \in Hashes
        PROVE  /\ pk'.rep[g] \in Names /\ fs[pk'.rep[g]] # NoFile /\ data'[fs[pk'.rep[g]]] = g
               /\ g \notin pk'.todo => Own(pk'.rep[g])
    <3>1. CASE g = h
      BY <3>1, <1>5, <1>6, <1>7, <1>8, <1>9
    <3>2. CASE g # h
      <4>1. pk'.rep[g] = pk.rep[g] /\ (g \notin pk'.todo => g \notin pk.todo)
        BY <3>2, <1>5, <1>8
      <4>2. fs[pk.rep[g]] \in Inodes
        BY <1>4, <1>5
      <4> QED BY <4>1, <4>2, <1>5, <1>6, <1>9
    <3> QED BY <3>1, <3>2
  <2> QED BY <1>1, <1>5, <1>8, <1>14, <2>1, <2>2 DEF RepAgrees, Names
<1> QED BY <1>8, <1>10, <1>11, <1>12, <1>13, <1>15
        DEF IndInv, CopyIsNew, TempAgrees, Renamed, RetainAgrees, DeletesOthers

(* What stands for a name, once everything is copied, is in the trace        *)
(* directory already, so taking it for one of that directory changes nothing. *)
LEMMA FileMap ==
  ASSUME IndInv, pk.pc \in {"copy", "written"}, pk.todo = {}, NEW n \in DOMAIN pk.info
  PROVE  file_map(n) = pk.rep[pk.info[n]]
<1>1. PICK r : r = pk.rep[pk.info[n]]
  OBVIOUS
<1>2. pk.info[n] \in Hashes
  BY DEF Hashes
<1>3. r \in Names /\ r.d = "trace"
  BY <1>1, <1>2, RepFacts DEF Own
<1>4. r = [d |-> r.d, k |-> r.k, b |-> r.b]
  BY <1>3, FilesFacts DEF IsName
<1>5. [r EXCEPT !.d = "trace"] = r
  BY <1>3, <1>4
<1> QED BY <1>1, <1>5 DEF file_map

(* The new substream is written beside the old one; a file that a killed     *)
(* command left there stops this one.                                        *)
LEMMA WriteTempSafe ==
  ASSUME IndInv, WriteTemp
  PROVE  IndInv'
<1>1. pk.pc = "copy" /\ pk.todo = {} /\ SameFiles
  BY DEF WriteTemp, SameFiles
<1>2. CASE temp # <<>>
  <2>1. pk' = [Idle EXCEPT !.pc = "failed"]
    BY <1>2 DEF WriteTemp
  <2> QED BY <1>1, <2>1, SameFilesSafe, RestingSafe, IdleFields
<1>3. CASE temp = <<>>
  <2>1. /\ temp' = <<[i \in DOMAIN mmaps |-> file_map(mmaps[i])]>>
        /\ pk' = [pk EXCEPT !.pc = "written"]
    BY <1>3 DEF WriteTemp
  <2>2. DOMAIN pk = Fields /\ pk.index \in Nat
    BY FilesFacts
  <2>3. /\ DOMAIN pk' = Fields /\ pk'.pc = "written" /\ pk'.index = pk.index
        /\ pk'.info = pk.info /\ pk'.rep = pk.rep /\ pk'.todo = pk.todo
    BY <2>1, <2>2 DEF Fields
  <2>4. FilesOK' /\ OwnApart' /\ StaysReplayable'
    BY <1>1, <2>2, <2>3, SameFilesSafe
  <2>5. InfoAgrees'
    BY <1>1, <2>3 DEF IndInv, InfoAgrees, Working, SameFiles
  <2>6. Hashes' = Hashes
    BY <2>3 DEF Hashes
  <2>7. RepAgrees'
    BY <1>1, <2>3, <2>6, RepFacts DEF RepAgrees, SameFiles, Names
  <2>8. TempAgrees'
    <3>1. temp'[1] = [i \in DOMAIN mmaps |-> file_map(mmaps[i])]
      BY <2>1
    <3>2. ASSUME NEW i \in DOMAIN mmaps
          PROVE  file_map(mmaps[i]) = pk.rep[want[i]]
      <4>1. Working
        BY <1>1 DEF Working
      <4>2. mmaps[i] \in DOMAIN pk.info /\ pk.info[mmaps[i]] = want[i]
        BY <4>1, HashesFacts
      <4> QED BY <4>2, <1>1, FileMap
    <3> QED BY <1>1, <2>3, <3>1, <3>2 DEF TempAgrees, SameFiles
  <2> QED BY <2>3, <2>4, <2>5, <2>7, <2>8
          DEF IndInv, CopyIsNew, Renamed, RetainAgrees, DeletesOthers
<1> QED BY <1>2, <1>3

(* The new substream replaces the old one: every region is of a file with    *)
(* the content it had.                                                       *)
LEMMA RenameTempSafe ==
  ASSUME IndInv, RenameTemp
  PROVE  IndInv'
<1>1. /\ pk.pc = "written" /\ fs' = fs /\ data' = data /\ want' = want /\ mmaps' = temp[1]
      /\ pk' = [pk EXCEPT !.pc = "renamed"]
  BY DEF RenameTemp
<1>2. /\ DOMAIN want = DOMAIN mmaps /\ DOMAIN pk = Fields /\ pk.index \in Nat
  BY FilesFacts
<1>3. /\ DOMAIN pk' = Fields /\ pk'.pc = "renamed" /\ pk'.index = pk.index
      /\ pk'.info = pk.info /\ pk'.rep = pk.rep
  BY <1>1, <1>2 DEF Fields
<1>4. /\ pk.todo = {} /\ DOMAIN mmaps' = DOMAIN mmaps
      /\ \A i \in DOMAIN mmaps : mmaps'[i] = pk.rep[want[i]]
  BY <1>1 DEF IndInv, TempAgrees
<1>5. Working
  BY <1>1 DEF Working
<1>6. \A i \in DOMAIN mmaps : want[i] \in Hashes
  BY <1>5, HashesFacts
<1>7. \A i \in DOMAIN mmaps :
        /\ mmaps'[i] \in Names /\ fs[mmaps'[i]] # NoFile /\ data[fs[mmaps'[i]]] = want[i]
        /\ Own(mmaps'[i])
  BY <1>1, <1>4, <1>6, RepFacts
<1>8. FilesOK'
  BY <1>1, <1>2, <1>3, <1>4 DEF IndInv, FilesOK, Fields, Names
<1>9. OwnApart'
  BY <1>1 DEF IndInv, OwnApart, Names
<1>10. StaysReplayable'
  BY <1>1, <1>4, <1>7 DEF StaysReplayable, Names
<1>11. Renamed'
  BY <1>1, <1>4, <1>7 DEF Renamed
<1>12. RetainAgrees'
  <2>1. \A m : file_map(m)' = file_map(m)
    BY <1>3 DEF file_map
  <2>2. \A m \in DOMAIN pk.info : file_map(m) = pk.rep[pk.info[m]]
    BY <1>1, <1>4, FileMap
  <2>3. /\ DOMAIN pk.info = {mmaps[i] : i \in DOMAIN mmaps}
        /\ \A i \in DOMAIN mmaps : pk.info[mmaps[i]] = want[i]
    BY <1>5, HashesFacts
  <2>4. \A i \in DOMAIN mmaps : mmaps[i] \in DOMAIN pk.info /\ file_map(mmaps[i]) = mmaps'[i]
    BY <1>4, <2>2, <2>3
  <2>5. {file_map(m) : m \in DOMAIN pk.info} = {mmaps'[i] : i \in DOMAIN mmaps}
    BY <2>3, <2>4
  <2> QED BY <1>3, <1>4, <2>1, <2>5 DEF RetainAgrees
<1> QED BY <1>3, <1>8, <1>9, <1>10, <1>11, <1>12
        DEF IndInv, InfoAgrees, Working, RepAgrees, CopyIsNew, TempAgrees, DeletesOthers

(* The files to delete are those that no region has. *)
LEMMA ListFilesSafe ==
  ASSUME IndInv, ListFiles
  PROVE  IndInv'
<1>1. /\ pk.pc = "renamed" /\ SameFiles
      /\ pk' = [pk EXCEPT !.pc = "delete",
           !.del = {n \in Names : /\ n.d = "trace" /\ n.k # "plain" /\ fs[n] # NoFile
                                  /\ n \notin {file_map(m) : m \in DOMAIN pk.info}}]
  BY DEF ListFiles, SameFiles
<1>2. DOMAIN pk = Fields /\ pk.index \in Nat
  BY FilesFacts
<1>3. /\ DOMAIN pk' = Fields /\ pk'.pc = "delete" /\ pk'.index = pk.index
      /\ pk'.del = {n \in Names : /\ n.d = "trace" /\ n.k # "plain" /\ fs[n] # NoFile
                                  /\ n \notin {file_map(m) : m \in DOMAIN pk.info}}
  BY <1>1, <1>2 DEF Fields
<1>4. FilesOK' /\ OwnApart' /\ StaysReplayable'
  BY <1>1, <1>2, <1>3, SameFilesSafe
<1>5. Renamed'
  BY <1>1, <1>3 DEF IndInv, Renamed, SameFiles
<1>6. pk'.del = MmapFiles \ {mmaps[i] : i \in DOMAIN mmaps}
  <2>1. {file_map(m) : m \in DOMAIN pk.info} = {mmaps[i] : i \in DOMAIN mmaps}
    BY <1>1 DEF IndInv, RetainAgrees
  <2> QED BY <1>3, <2>1 DEF MmapFiles
<1>7. MmapFiles' = MmapFiles
  BY <1>1 DEF MmapFiles, SameFiles, Names
<1>8. DeletesOthers'
  BY <1>1, <1>3, <1>6, <1>7 DEF DeletesOthers, SameFiles
<1> QED BY <1>3, <1>4, <1>5, <1>8
        DEF IndInv, InfoAgrees, Working, RepAgrees, CopyIsNew, TempAgrees, RetainAgrees

(* Deleting a name that no region has leaves the regions' files alone. *)
LEMMA RemoveName ==
  ASSUME IndInv, NEW n \in Names, fs' = [fs EXCEPT ![n] = NoFile], data' = data,
         mmaps' = mmaps, want' = want, DOMAIN pk' = Fields, pk'.index \in Nat,
         \A i \in DOMAIN mmaps : mmaps[i] # n
  PROVE  /\ FilesOK' /\ OwnApart' /\ StaysReplayable'
         /\ MmapFiles' = MmapFiles \ {n}
<1>1. fs \in [Names -> Inodes \cup {NoFile}]
  BY FilesFacts
<1>2. /\ Names' = Names /\ fs' \in [Names -> Inodes \cup {NoFile}]
      /\ fs'[n] = NoFile /\ \A m \in Names : m # n => fs'[m] = fs[m]
  BY <1>1 DEF Names
<1>3. FilesOK'
  BY <1>2 DEF IndInv, FilesOK, Fields
<1>4. OwnApart'
  BY <1>2 DEF IndInv, OwnApart
<1>5. StaysReplayable'
  BY <1>2 DEF IndInv, StaysReplayable
<1>6. MmapFiles' = MmapFiles \ {n}
  BY <1>2 DEF MmapFiles
<1> QED BY <1>3, <1>4, <1>5, <1>6

LEMMA DeleteFileSafe ==
  ASSUME IndInv, DeleteFile
  PROVE  IndInv'
<1>1. pk.pc = "delete" /\ data' = data /\ mmaps' = mmaps /\ want' = want
  BY DEF DeleteFile
<1>2. DOMAIN pk = Fields /\ pk.index \in Nat
  BY FilesFacts
<1>3. PICK has : has = {mmaps[i] : i \in DOMAIN mmaps}
  OBVIOUS
<1>4. pk.del \subseteq MmapFiles /\ MmapFiles \cap has = MmapFiles \ pk.del
  BY <1>1, <1>3 DEF IndInv, DeletesOthers
<1>5. CASE pk.del = {}
  <2>1. fs' = fs /\ pk' = [Idle EXCEPT !.pc = "done"]
    BY <1>5 DEF DeleteFile
  <2>2. DOMAIN pk' = Fields /\ pk'.pc = "done" /\ pk'.index \in Nat
    BY <2>1, IdleFields
  <2>3. FilesOK' /\ OwnApart' /\ StaysReplayable'
    BY <1>1, <2>1, <2>2, SameFilesSafe DEF SameFiles
  <2>4. Renamed'
    BY <1>1, <2>2 DEF IndInv, Renamed
  <2>5. MmapFiles' = MmapFiles
    BY <2>1 DEF MmapFiles, Names
  <2>6. DeletesOthers'
    BY <1>1, <1>3, <1>4, <1>5, <2>2, <2>5 DEF DeletesOthers
  <2> QED BY <2>2, <2>3, <2>4, <2>6
          DEF IndInv, InfoAgrees, Working, RepAgrees, CopyIsNew, TempAgrees, RetainAgrees
<1>6. CASE pk.del # {}
  <2>1. PICK n \in pk.del : fs' = [fs EXCEPT ![n] = NoFile]
                            /\ pk' = [pk EXCEPT !.del = pk.del \ {n}]
    BY <1>6 DEF DeleteFile
  <2>2. DOMAIN pk' = Fields /\ pk'.pc = "delete" /\ pk'.index = pk.index /\ pk'.del = pk.del \ {n}
    BY <1>1, <1>2, <2>1 DEF Fields
  <2>3. n \in Names /\ n \notin has
    BY <1>4, <2>1 DEF MmapFiles
  <2>4. /\ FilesOK' /\ OwnApart' /\ StaysReplayable'
        /\ MmapFiles' = MmapFiles \ {n}
    BY <1>1, <1>2, <1>3, <2>1, <2>2, <2>3, RemoveName
  <2>5. Renamed'
    BY <1>1, <2>2 DEF IndInv, Renamed
  <2>6. DeletesOthers'
    BY <1>1, <1>3, <1>4, <2>1, <2>2, <2>4 DEF DeletesOthers
  <2> QED BY <2>2, <2>4, <2>5, <2>6
          DEF IndInv, InfoAgrees, Working, RepAgrees, CopyIsNew, TempAgrees, RetainAgrees
<1> QED BY <1>5, <1>6

(* Whatever happens to files outside a packed trace happens to none of its   *)
(* own.                                                                      *)
LEMMA OverwriteSafe ==
  ASSUME IndInv, NEW n \in Names, Overwrite(n)
  PROVE  IndInv'
<1>1. /\ pk.pc = "done" /\ n.d # "trace" /\ fs[n] # NoFile
      /\ mmaps' = mmaps /\ want' = want /\ pk' = pk
  BY DEF Overwrite
<1>2. /\ fs \in [Names -> Inodes \cup {NoFile}] /\ DOMAIN data = Inodes
      /\ DOMAIN want = DOMAIN mmaps /\ DOMAIN pk = Fields /\ pk.index \in Nat
      /\ \A i \in DOMAIN mmaps :
           mmaps[i] \in Names /\ fs[mmaps[i]] # NoFile /\ data[fs[mmaps[i]]] = want[i]
      /\ \A k, m \in Names : fs[k] = fs[m] /\ fs[k] # NoFile /\ Own(k) => m.d = "trace"
  BY FilesFacts
<1>3. \A i \in DOMAIN mmaps : Own(mmaps[i])
  BY <1>1 DEF IndInv, Renamed
<1>4. \A i \in DOMAIN mmaps : mmaps[i] # n /\ fs[mmaps[i]] # fs[n]
  BY <1>1, <1>2, <1>3
<1>5. MmapFiles \subseteq {mmaps[i] : i \in DOMAIN mmaps}
  BY <1>1 DEF IndInv, DeletesOthers
<1>6. Renamed'
  BY <1>1 DEF IndInv, Renamed
<1>7. FilesOK' /\ OwnApart' /\ StaysReplayable' /\ MmapFiles' \subseteq MmapFiles
  <2>1. CASE \E c \in Contents : data' = [data EXCEPT ![fs[n]] = c] /\ fs' = fs
    <3>1. /\ DOMAIN data' = Inodes /\ fs' = fs
          /\ \A i \in DOMAIN mmaps : data'[fs[mmaps[i]]] = data[fs[mmaps[i]]]
      BY <1>2, <1>4, <2>1
    <3>2. FilesOK'
      BY <1>1, <1>2, <3>1 DEF IndInv, FilesOK, Names, Fields
    <3>3. OwnApart'
      BY <3>1 DEF IndInv, OwnApart, Names
    <3>4. StaysReplayable'
      BY <1>1, <1>2, <3>1 DEF StaysReplayable, Names
    <3>5. MmapFiles' = MmapFiles
      BY <3>1 DEF MmapFiles, Names
    <3> QED BY <3>2, <3>3, <3>4, <3>5
  <2>2. CASE fs' = [fs EXCEPT ![n] = NoFile] /\ data' = data
    BY <1>1, <1>2, <1>4, <2>2, RemoveName
  <2> QED BY <2>1, <2>2 DEF Overwrite
<1>8. DeletesOthers'
  BY <1>1, <1>5, <1>7 DEF DeletesOthers
<1> QED BY <1>1, <1>6, <1>7, <1>8
        DEF IndInv, InfoAgrees, Working, RepAgrees, CopyIsNew, TempAgrees, RetainAgrees

(* A recording can be replayed. *)
LEMMA PackInit ==
  ASSUME PackAssumption, Init
  PROVE  IndInv
<1>1. PICK r \in Recordings :
        /\ fs = [n \in DOMAIN r.names \cup {PackName(i) : i \in 0 .. MaxPack} |->
                   IF n \in DOMAIN r.names THEN r.names[n] ELSE NoFile]
        /\ DOMAIN data = Inodes
        /\ mmaps = r.regions
        /\ want = [i \in DOMAIN r.regions |-> data[r.names[r.regions[i]]]]
        /\ pk = Idle
  BY Zenon DEF Init
<1>2. /\ r.names \in [DOMAIN r.names -> Inodes]
      /\ r.regions \in [DOMAIN r.regions -> DOMAIN r.names]
      /\ \A n \in DOMAIN r.names : IsName(n) /\ n.d # "trace0"
      /\ \A n, m \in DOMAIN r.names :
           r.names[n] = r.names[m] /\ n.d = "trace" /\ n.k # "hardlink" => m.d = "trace"
  BY <1>1 DEF PackAssumption
<1>3. \A i \in 0 .. MaxPack : IsName(PackName(i)) /\ PackName(i).d # "trace0"
  BY DEF IsName, PackName
<1>4. /\ Names = DOMAIN r.names \cup {PackName(i) : i \in 0 .. MaxPack}
      /\ \A n \in DOMAIN r.names : fs[n] = r.names[n] /\ fs[n] \in Inodes
      /\ \A n \in Names : n \notin DOMAIN r.names => fs[n] = NoFile
  BY <1>1, <1>2 DEF Names
<1>5. \A k \in Inodes : k # NoFile
  BY DEF Inodes, NoFile
<1>6. DOMAIN pk = Fields /\ pk.pc = "idle" /\ pk.index \in Nat
  BY <1>1, IdleFields
<1>7. FilesOK
  <2>1. fs \in [Names -> Inodes \cup {NoFile}]
    BY <1>1, <1>4
  <2>2. \A n \in Names : IsName(n) /\ n.d # "trace0"
    BY <1>2, <1>3, <1>4
  <2>3. DOMAIN want = DOMAIN mmaps
    BY <1>1
  <2> QED BY <1>1, <1>4, <1>6, <2>1, <2>2, <2>3 DEF FilesOK, Fields
<1>8. OwnApart
  BY <1>2, <1>4 DEF OwnApart, Own
<1>9. StaysReplayable
  <2>1. ASSUME NEW i \in DOMAIN mmaps
        PROVE  mmaps[i] \in Names /\ fs[mmaps[i]] # NoFile /\ data[fs[mmaps[i]]] = want[i]
    <3>1. mmaps[i] \in DOMAIN r.names /\ want[i] = data[r.names[mmaps[i]]]
      BY <1>1, <1>2
    <3> QED BY <1>4, <1>5, <3>1
  <2> QED BY <2>1 DEF StaysReplayable
<1> QED BY <1>6, <1>7, <1>8, <1>9
        DEF IndInv, InfoAgrees, Working, RepAgrees, CopyIsNew, TempAgrees, Renamed, RetainAgrees,
          DeletesOthers

(* Where nothing changes, the invariant stays. *)
LEMMA PackStutter ==
  ASSUME IndInv, UNCHANGED vars
  PROVE  IndInv'
<1>1. SameFiles /\ pk' = pk /\ temp' = temp
  BY DEF vars, SameFiles
<1>2. FilesOK' /\ OwnApart' /\ StaysReplayable'
  BY <1>1, FilesFacts, SameFilesSafe
<1>3. InfoAgrees' /\ RepAgrees' /\ CopyIsNew'
  BY <1>1 DEF IndInv, InfoAgrees, Working, RepAgrees, CopyIsNew, Hashes, SameFiles, Names
<1>4. TempAgrees' /\ Renamed' /\ RetainAgrees' /\ DeletesOthers'
  BY <1>1 DEF IndInv, TempAgrees, Renamed, RetainAgrees, DeletesOthers, MmapFiles, file_map,
    SameFiles, Names
<1> QED BY <1>2, <1>3, <1>4 DEF IndInv

LEMMA PackStepSafe ==
  ASSUME PackAssumption, IndInv, [Next]_vars
  PROVE  IndInv'
<1>1. CASE gather_file_info
  BY <1>1, GatherSafe
<1>2. CASE compute_canonical_mmapped_files
  BY <1>2, CanonicalSafe
<1>3. CASE CreateCopy
  BY <1>3, CreateCopySafe
<1>4. CASE FillCopy
  BY <1>4, FillCopySafe
<1>5. CASE WriteTemp
  BY <1>5, WriteTempSafe
<1>6. CASE RenameTemp
  BY <1>6, RenameTempSafe
<1>7. CASE ListFiles
  BY <1>7, ListFilesSafe
<1>8. CASE DeleteFile
  BY <1>8, DeleteFileSafe
<1>9. CASE Crash \/ Again
  BY <1>9, RestartSafe
<1>10. CASE \E n \in Names : Overwrite(n)
  BY <1>10, OverwriteSafe
<1>11. CASE UNCHANGED vars
  BY <1>11, PackStutter
<1> QED BY <1>1, <1>2, <1>3, <1>4, <1>5, <1>6, <1>7, <1>8, <1>9, <1>10, <1>11 DEF Next, PackStep

(* The invariant holds at every step of the command, killed and repeated as  *)
(* it may be.                                                                *)
THEOREM PackInvariance == PackAssumption => (Spec => []IndInv)
<1> SUFFICES ASSUME PackAssumption PROVE Spec => []IndInv
  OBVIOUS
<1>1. Init => IndInv
  BY PackInit
<1>2. IndInv /\ [Next]_vars => IndInv'
  BY PackStepSafe
<1> QED BY <1>1, <1>2, PTL DEF Spec

(* The trace can be replayed before, during and after a pack, wherever       *)
(* rewrite_mmaps or delete_unnecessary_files is killed and however often the *)
(* command is repeated, and does not depend on files outside it once packed. *)
THEOREM TraceStaysReplayable == PackAssumption => (Spec => []StaysReplayable)
<1> SUFFICES ASSUME PackAssumption PROVE Spec => []StaysReplayable
  OBVIOUS
<1>1. IndInv => StaysReplayable
  BY DEF IndInv
<1> QED BY <1>1, PackInvariance, PTL

(* A completed pack leaves one file for each mapped content, the trace's own, *)
(* and has deleted every other one, those of killed packs included.          *)
THEOREM PackLeavesClean == PackAssumption => (Spec => []PackedIsClean)
<1> SUFFICES ASSUME PackAssumption PROVE Spec => []PackedIsClean
  OBVIOUS
<1>1. IndInv => PackedIsClean
  BY DEF IndInv, PackedIsClean, Renamed, DeletesOthers, MmapFiles, Own
<1> QED BY <1>1, PackInvariance, PTL
=============================================================================
