---------------------------- MODULE MuplayPatch ----------------------------
(***************************************************************************)
(* Reading a patch: MuplayPatchReader::read_file and the MuplayPatch it     *)
(* fills.  For every file of the patch the hunks are read line by line, the *)
(* numbers of the inserted and deleted lines are computed from each hunk's  *)
(* header and body, and collected per file.                                 *)
(*                                                                          *)
(* A change of a file is a script: for every line whether it is kept,       *)
(* deleted or inserted.  What git diff and filterdiff make of it is the     *)
(* reader's input, and the script itself says what the reader should find.  *)
(***************************************************************************)
EXTENDS Integers, Sequences, SequencesExt, FiniteSets

CONSTANTS
  Patches,  \* patches: sequences of [name, script, context, nonl]
  Garbage   \* what reading behind the end of a vector may give

Ops == {"keep", "del", "ins"}

(* What the patches are. *)
PatchesAssumption ==
  \A p \in Patches : \A k \in DOMAIN p :
    /\ p[k].script \in Seq(Ops)
    /\ p[k].context \in Nat
    /\ p[k].nonl \subseteq {"old", "new"}  \* versions without a final newline

VARIABLES
  patch,          \* the patch that is read
  file,           \* index of the file whose hunks are read
  lines, next,    \* the lines of its _hunkdetails.txt, and the next to be read
  currenthk, HK,
  file_to_lines,  \* name -> [ins, del]
  pc

vars == <<patch, file, lines, next, currenthk, HK, file_to_lines, pc>>

-----------------------------------------------------------------------------
(* git diff. *)

Indices(s, op) == {k \in DOMAIN s : s[k] = op}

(* The number of line k of the script in the old and in the new file. *)
OldLine(s, k) == Cardinality({j \in 1 .. k : s[j] # "ins"})
NewLine(s, k) == Cardinality({j \in 1 .. k : s[j] # "del"})

Changed(s) == Indices(s, "del") \cup Indices(s, "ins")
Shown(f) == {k \in DOMAIN f.script :
               \E c \in Changed(f.script) : k - c \in -f.context .. f.context}

(* The first and the last lines of the hunks. *)
HunkStarts(f) == {k \in Shown(f) : k - 1 \notin Shown(f)}
HunkEnd(f, a) == CHOOSE b \in Shown(f) :
                   b >= a /\ b + 1 \notin Shown(f) /\ a .. b \subseteq Shown(f)

(* A range with no lines is given by the line before it; a count of 1 is not *)
(* printed.                                                                  *)
Printed(start, n) == IF n = 1 THEN <<start + 1>>
                     ELSE IF n = 0 THEN <<start, 0>> ELSE <<start + 1, n>>

Header(s, a, b) ==
  [kind |-> "@@",
   numbers |-> Printed(OldLine(s, a - 1), OldLine(s, b) - OldLine(s, a - 1))
               \o Printed(NewLine(s, a - 1), NewLine(s, b) - NewLine(s, a - 1))]

Sign(op) == CASE op = "del" -> "-" [] op = "ins" -> "+" [] op = "keep" -> " "
Line(kind) == [kind |-> kind, numbers |-> << >>]

(* "\ No newline at end of file" follows the last line of such a version. *)
IsLast(s, k, op) == s[k] # op /\ \A j \in k + 1 .. Len(s) : s[j] = op
EndMark(f, k) ==
  IF \/ "old" \in f.nonl /\ IsLast(f.script, k, "ins")
     \/ "new" \in f.nonl /\ IsLast(f.script, k, "del")
  THEN <<Line("\\")>> ELSE << >>

HunkLines(f, a) ==
  LET b == HunkEnd(f, a)
  IN  <<Header(f.script, a, b)>> \o
      FlattenSeq([j \in 1 .. b - a + 1 |->
        <<Line(Sign(f.script[a + j - 1]))>> \o EndMark(f, a + j - 1)])

(* filterdiff's output for one file, with its "diff --git", "---" and "+++". *)
filterdiff(f) ==
  LET starts == SetToSortSeq(HunkStarts(f), <)
  IN  <<Line("head")>> \o FlattenSeq([k \in DOMAIN starts |-> HunkLines(f, starts[k])])

-----------------------------------------------------------------------------
(* MuplayPatch. *)

NoHunk == [file_name |-> "", numbered |-> FALSE, del_line |-> -1, ins_line |-> -1,
           diff_code |-> << >>, deletion_lines |-> << >>, insertion_lines |-> << >>]

At(v, k) == IF k \in DOMAIN v THEN {v[k]} ELSE Garbage

(* Mutant: the file's name is not stored. *)
get_hunk_content_unnamed(name, v) ==
  {[NoHunk EXCEPT !.numbered = TRUE, !.del_line = v[1], !.ins_line = i] : i \in At(v, 3)}

(* get_hunk_content: the new hunk for a header, del_line[0] being the first  *)
(* number in it and ins_line[0] the third (get_line_num).                    *)
get_hunk_content(name, v) ==
  {[NoHunk EXCEPT !.file_name = name, !.numbered = TRUE, !.del_line = v[1], !.ins_line = i] :
     i \in At(v, 3)}

(* get_hunk_code: a line before the first header is dropped. *)
get_hunk_code(hk, line) ==
  IF hk.numbered THEN [hk EXCEPT !.diff_code = Append(@, line.kind)] ELSE hk

(* The numbers of the lines with this sign: every line counts that does not  *)
(* have the other sign.                                                      *)
Numbers(start, code, sign, other) ==
  LET Ks == {k \in DOMAIN code : code[k] = sign}
      Number(k) == start + Cardinality({j \in 1 .. k - 1 : code[j] # other})
  IN  SetToSortSeq({Number(k) : k \in Ks}, <)

(* Without deletions the vector gets a 0; else, without insertions.  *)
hk_gen_line_num(hk) ==
  LET del == Numbers(hk.del_line, hk.diff_code, "-", "+")
      ins == Numbers(hk.ins_line, hk.diff_code, "+", "-")
  IN  [hk EXCEPT !.deletion_lines = IF del = << >> THEN <<0>> ELSE del,
                 !.insertion_lines = IF ins = << >> /\ del # << >> THEN <<0>> ELSE ins]

(* Mutant: the hunk that is complete is not stored. *)
whether_hunk_finish_dropped == HK

whether_hunk_finish ==
  IF currenthk.numbered THEN Append(HK, hk_gen_line_num(currenthk)) ELSE HK

get_all_mod_lines_for_files(hunks) ==
  [name \in {hunks[k].file_name : k \in DOMAIN hunks} |->
     LET own == SelectSeq(hunks, LAMBDA hk : hk.file_name = name)
     IN  [ins |-> FlattenSeq([k \in DOMAIN own |-> own[k].insertion_lines]),
          del |-> FlattenSeq([k \in DOMAIN own |-> own[k].deletion_lines])]]

(* What the statistics are given: for every hunk, the lines of its file. *)
get_num_inserted_lines ==
  FoldSeq(LAMBDA hk, n : n + Len(file_to_lines[hk.file_name].ins), 0, HK)

-----------------------------------------------------------------------------
(* MuplayPatchReader. *)

Init ==
  /\ patch \in Patches
  /\ file = 1
  /\ lines = << >>
  /\ next = 1
  /\ currenthk = NoHunk
  /\ HK = << >>
  /\ file_to_lines = << >>
  /\ pc = "open"

OpenHunks ==
  /\ pc = "open" /\ file <= Len(patch)
  /\ lines' = filterdiff(patch[file])
  /\ next' = 1
  /\ currenthk' = NoHunk
  /\ pc' = "read"
  /\ UNCHANGED <<patch, file, HK, file_to_lines>>

(* A header ends the hunk before it; the line that follows is read with it. *)
ReadHeader ==
  /\ pc = "read" /\ next <= Len(lines)
  /\ lines[next].kind = "@@"
  /\ HK' = whether_hunk_finish
  /\ \E hk \in get_hunk_content(patch[file].name, lines[next].numbers) :
       currenthk' = get_hunk_code(hk, lines[next + 1])
  /\ next' = next + 2
  /\ UNCHANGED <<patch, file, lines, file_to_lines, pc>>

ReadLine ==
  /\ pc = "read" /\ next <= Len(lines)
  /\ lines[next].kind # "@@"
  /\ currenthk' = get_hunk_code(currenthk, lines[next])
  /\ next' = next + 1
  /\ UNCHANGED <<patch, file, lines, HK, file_to_lines, pc>>

EndOfHunks ==
  /\ pc = "read" /\ next > Len(lines)
  /\ HK' = Append(HK, hk_gen_line_num(currenthk))
  /\ file' = file + 1
  /\ pc' = "open"
  /\ UNCHANGED <<patch, lines, next, currenthk, file_to_lines>>

Collect ==
  /\ pc = "open" /\ file > Len(patch)
  /\ file_to_lines' = get_all_mod_lines_for_files(HK)
  /\ pc' = "done"
  /\ UNCHANGED <<patch, file, lines, next, currenthk, HK>>

Done == pc = "done" /\ UNCHANGED vars

Next == OpenHunks \/ ReadHeader \/ ReadLine \/ EndOfHunks \/ Collect \/ Done

Spec == Init /\ [][Next]_vars

-----------------------------------------------------------------------------
(* Properties. *)

Inserted(s) == {NewLine(s, k) : k \in Indices(s, "ins")}
Deleted(s) == {OldLine(s, k) : k \in Indices(s, "del")}

(* The lines found for a file are those the patch inserts in the new version *)
(* and deletes from the old one, in order and once each; 0 stands for none   *)
(* ("store the code for locating the line number of changed lines").         *)
LinesFound ==
  pc = "done" =>
    \A k \in DOMAIN patch :
      LET found == file_to_lines[patch[k].name]
          Real(v) == SelectSeq(v, LAMBDA n : n # 0)
      IN  /\ Real(found.ins) = SetToSortSeq(Inserted(patch[k].script), <)
          /\ Real(found.del) = SetToSortSeq(Deleted(patch[k].script), <)

(* Every file of the patch is found under its own name and no other name is. *)
FilesFound ==
  pc = "done" => DOMAIN file_to_lines = {patch[k].name : k \in DOMAIN patch}

(* The statistics report the number of lines inserted. *)
InsertionsCounted ==
  pc = "done" =>
    get_num_inserted_lines =
      FoldSeq(LAMBDA f, n : n + Cardinality(Inserted(f.script)), 0, patch)
=============================================================================
