--------------------------- MODULE MuplaySession ---------------------------
(***************************************************************************)
(* Mutable replay: MuplaySession::muplay_step, called in a loop by          *)
(* rr muplay, with the MuplayManager that decides what each step does and   *)
(* the MuplayQuilter that loads the patch.                                  *)
(*                                                                          *)
(* The recorded program is replayed (module ReplaySession) to a breakpoint  *)
(* at _start; the modified functions are loaded there and their originals   *)
(* get breakpoints.  At the first of these that is hit the task is sent to  *)
(* the modified function, and from then on it runs live.                    *)
(*                                                                          *)
(* A call of muplay_step is two actions, first the manager's and then the   *)
(* step of the replay or of the diversion; nothing comes between them.  The *)
(* initial exec is over when the model starts.                              *)
(***************************************************************************)
EXTENDS ReplaySession

CONSTANTS
  Entry,          \* the address of _start
  Summaries,      \* get_summaries: [type, funcs], one per file and direction
  OldSymbol,      \* name -> address in the old executable
  NewFunctions,   \* names the parse of the new executable finds
  Live,           \* name -> the addresses executed once its new version runs
  MetadataOutput  \* whether the -x option is given

Names == UNION {Summaries[k].funcs : k \in DOMAIN Summaries}

ASSUME PatchAssumption ==
  /\ \A k \in DOMAIN Summaries : Summaries[k].type \in {"INSERTED", "DELETED"}
  /\ \A m, n \in DOMAIN OldSymbol : OldSymbol[m] = OldSymbol[n] => m = n
  /\ "_start" \notin Names
  /\ Entry \notin {OldSymbol[n] : n \in DOMAIN OldSymbol}
  /\ Names \subseteq DOMAIN Live
  /\ \A n \in DOMAIN Live : /\ Live[n][1] \notin Syscalls
                            /\ Live[n][Len(Live[n])] \in Syscalls

VARIABLES
  turn,               \* which half of muplay_step is next
  has_set_entry_bp, done_modified_load, has_diverged,
  func_mappings,      \* name -> [orig, mod, bp]
  running, lpos,      \* the function gone live and the place in Live[running]
  metadata_mode,
  mu_status           \* of the last MuplayResult

manager == <<has_set_entry_bp, done_modified_load, func_mappings>>
diversion == <<has_diverged, running, lpos>>
muvars == <<vars, turn, manager, diversion, metadata_mode, mu_status>>

FunctionMapping(orig, mod, bp) == [orig |-> orig, mod |-> mod, bp |-> bp]

(* metadata_mode is assigned only when the option is given. *)
MuInit ==
  /\ Init
  /\ turn = "manager"
  /\ has_set_entry_bp = FALSE
  /\ done_modified_load = FALSE
  /\ func_mappings = << >>
  /\ has_diverged = FALSE
  /\ running = None
  /\ lpos = 1
  /\ metadata_mode \in (IF MetadataOutput THEN {TRUE} ELSE BOOLEAN)
  /\ mu_status = "MUPLAY_CONTINUE"

-----------------------------------------------------------------------------
(* The manager's queries.  A breakpoint hit in replay leaves $ip behind it.  *)

MuRunning == fault = "none" /\ mu_status = "MUPLAY_CONTINUE"

should_set_entry_bp == ~has_set_entry_bp

(* Mutant: $ip is expected at the breakpoint. *)
at_entry_point_before ==
  LET t == current_task
  IN  ~past[t] /\ Code[t][pos[t]] = Entry

at_entry_point ==
  LET t == current_task
  IN  past[t] /\ Code[t][pos[t]] = Entry

should_load_modified_code ==
  has_set_entry_bp /\ ~done_modified_load /\ at_entry_point

ArmedFunctions(fms) == {n \in DOMAIN fms : fms[n].bp /\ n # "_start"}
mod_function_bps_exist == ArmedFunctions(func_mappings) # {}

(* After the jump the task is in Live[running] and never behind a            *)
(* breakpoint: diagnose_debugger_trap has put $ip back.                      *)
at_modified_func_bp ==
  /\ ~has_diverged
  /\ LET t == current_task
     IN  past[t] /\ \E n \in ArmedFunctions(func_mappings) :
                      func_mappings[n].orig = Code[t][pos[t]]

should_jump_to_modified_code ==
  done_modified_load /\ mod_function_bps_exist /\ at_modified_func_bp

(* current_task() is null at the end of the trace. *)
NoCurrentTask == IF at_end THEN TRUE ELSE current_task \notin live
AsksForTask == ~done_modified_load \/ mod_function_bps_exist

-----------------------------------------------------------------------------
(* The quilter.                                                              *)

Loaded == {k \in DOMAIN Summaries : Summaries[k].type # "DELETED"}

(* Mutant: one binary is visited instead of all. *)
visit_only_first_binary(fms) ==
  LET first == CHOOSE k \in Loaded : \A j \in Loaded : k <= j
      found == Summaries[first].funcs \cap DOMAIN OldSymbol
  IN  [n \in DOMAIN fms \cup found |->
         IF n \in DOMAIN fms THEN fms[n] ELSE FunctionMapping(OldSymbol[n], None, FALSE)]

(* Every modified function with a symbol in the old executable is inserted,  *)
(* without a modified address, unless the name is in the set already.        *)
visit_all_binaries(fms) ==
  LET found == UNION {Summaries[k].funcs : k \in Loaded} \cap DOMAIN OldSymbol
  IN  [n \in DOMAIN fms \cup found |->
         IF n \in DOMAIN fms THEN fms[n] ELSE FunctionMapping(OldSymbol[n], None, FALSE)]

(* Mutant: the first function of the patch gets no address. *)
load_quilted_code_but_one(fms) ==
  [n \in DOMAIN fms |->
     IF n \in NewFunctions \ {CHOOSE m \in Names : TRUE}
     THEN [fms[n] EXCEPT !.mod = n] ELSE fms[n]]

(* The loop returns at a summary without functions, with nothing loaded.     *)
(* The address of the new version of n is written n.                         *)
load_quilted_code(fms) ==
  IF \E k \in Loaded : Summaries[k].funcs = {} THEN fms
  ELSE [n \in DOMAIN fms |->
          IF n \in NewFunctions \cap UNION {Summaries[k].funcs : k \in Loaded}
          THEN [fms[n] EXCEPT !.mod = n] ELSE fms[n]]

load_modified_code(fms) == load_quilted_code(visit_all_binaries(fms))

-----------------------------------------------------------------------------
(* The manager's half of a step. *)

ManagersTurn == MuRunning /\ turn = "manager"

NullTask ==
  /\ ManagersTurn
  /\ AsksForTask /\ NoCurrentTask
  /\ fault' = "SEGV"
  /\ UNCHANGED <<trace, frame, action, tracee, live, syscall_bp, user, muplay_mode,
                 status, bounds, turn, manager, diversion, metadata_mode, mu_status>>

entry_mapping == FunctionMapping(Entry, Entry, TRUE)

put_entry_bp ==
  /\ ManagersTurn
  /\ should_set_entry_bp /\ ~NoCurrentTask
  /\ muplay_mode' = TRUE
  /\ user' = user \cup {Entry}
  /\ func_mappings' = [n \in {"_start"} |-> entry_mapping]
  /\ has_set_entry_bp' = TRUE
  /\ turn' = "step"
  /\ UNCHANGED <<trace, frame, action, tracee, live, syscall_bp, status, fault,
                 bounds, done_modified_load, diversion, metadata_mode, mu_status>>

set_function_breakpoints(fms) ==
  [n \in DOMAIN fms |-> IF n = "_start" THEN fms[n] ELSE [fms[n] EXCEPT !.bp = TRUE]]

(* Load the patch, move $ip back to _start, and set the breakpoints. *)
LoadModifiedCode ==
  /\ ManagersTurn /\ ~NoCurrentTask
  /\ should_load_modified_code
  /\ LET loaded == load_modified_code(func_mappings)
         removed == [loaded EXCEPT !["_start"].bp = FALSE]
         armed == set_function_breakpoints(removed)
     IN  /\ func_mappings' = armed
         /\ user' = (user \ {Entry}) \cup {armed[n].orig : n \in DOMAIN armed \ {"_start"}}
         /\ fault' = IF ArmedFunctions(armed) = {} THEN "ASSERT" ELSE "none"
  /\ past' = [past EXCEPT ![current_task] = FALSE]
  /\ done_modified_load' = TRUE
  /\ IF metadata_mode THEN mu_status' = "MUPLAY_EXITED" /\ UNCHANGED turn
                      ELSE turn' = "step" /\ UNCHANGED mu_status
  /\ UNCHANGED <<trace, frame, action, pos, insys, live, syscall_bp, muplay_mode,
                 status, bounds, has_set_entry_bp, diversion, metadata_mode>>

(* Mutant: any mapping with a modified address is taken. *)
get_modified_func_addr_any(orig) ==
  func_mappings[CHOOSE n \in ArmedFunctions(func_mappings) : TRUE].mod

get_modified_func_addr(orig) ==
  func_mappings[CHOOSE n \in DOMAIN func_mappings : func_mappings[n].orig = orig].mod

(* Mutant: the breakpoint is forgotten but not removed from the tracee. *)
remove_breakpoint_only_noted(a) == user

remove_breakpoint(a) == user \ {a}

(* Go live in the new version and execute its first instruction.  The        *)
(* session is cloned for the diversion, which clears the syscall breakpoint. *)
jump_to_modified_code ==
  /\ ManagersTurn /\ ~NoCurrentTask
  /\ should_jump_to_modified_code
  /\ LET t == current_task
         orig == Code[t][pos[t]]
         mod == get_modified_func_addr(orig)
     IN  IF mod = None
         THEN /\ fault' = "FATAL"
              /\ UNCHANGED <<past, syscall_bp, user, turn, func_mappings, diversion>>
         ELSE /\ user' = remove_breakpoint(orig)
              /\ func_mappings' = [n \in DOMAIN func_mappings |->
                   IF func_mappings[n].orig = orig
                   THEN [func_mappings[n] EXCEPT !.bp = FALSE] ELSE func_mappings[n]]
              /\ past' = [past EXCEPT ![t] = FALSE]
              /\ syscall_bp' = None
              /\ has_diverged' = TRUE
              /\ running' = mod
              /\ lpos' = 2
              /\ turn' = "step"
              /\ UNCHANGED fault
  /\ UNCHANGED <<trace, frame, action, pos, insys, live, muplay_mode, status, bounds,
                 has_set_entry_bp, done_modified_load, metadata_mode, mu_status>>

NothingToManage ==
  /\ ManagersTurn
  /\ ~(AsksForTask /\ NoCurrentTask)
  /\ ~should_set_entry_bp
  /\ ~(~done_modified_load /\ should_load_modified_code)
  /\ ~(mod_function_bps_exist /\ should_jump_to_modified_code)
  /\ turn' = "step"
  /\ UNCHANGED <<vars, manager, diversion, metadata_mode, mu_status>>

-----------------------------------------------------------------------------
(* The second half: the recorded program, or the live one. *)

MuReplayStep ==
  /\ MuRunning /\ turn = "step"
  /\ ~has_diverged
  /\ replay_step
  /\ turn' = "manager"
  /\ mu_status' = IF status' = "REPLAY_EXITED" THEN "MUPLAY_EXITED" ELSE mu_status
  /\ UNCHANGED <<manager, diversion, metadata_mode>>

(* The task has made the syscall that ends it (PTRACE_EVENT_EXIT). *)
exited == lpos > Len(Live[running])

(* Run to the next syscall, which is emulated, or to a breakpoint.           *)
diversion_step ==
  /\ MuRunning /\ turn = "step"
  /\ has_diverged
  /\ turn' = "manager"
  /\ IF exited
     THEN mu_status' = "MUPLAY_EXITED" /\ UNCHANGED lpos
     ELSE /\ UNCHANGED mu_status
          /\ \E p \in lpos .. Len(Live[running]) :
               LET path == Live[running]
               IN  /\ \A q \in lpos .. p - 1 : path[q] \notin user \cup Syscalls
                   /\ path[p] \in user \cup Syscalls
                   /\ lpos' = IF path[p] \in user THEN p ELSE p + 1
  /\ UNCHANGED <<vars, manager, has_diverged, running, metadata_mode>>

MuDone == ~MuRunning /\ UNCHANGED muvars

MuNext ==
  \/ NullTask \/ put_entry_bp \/ LoadModifiedCode \/ jump_to_modified_code
  \/ NothingToManage \/ MuReplayStep \/ diversion_step \/ MuDone

MuSpec == MuInit /\ [][MuNext]_muvars

(* serve_muplay_no_debugger calls muplay_step until MUPLAY_EXITED. *)
FairMuSpec == MuSpec /\ WF_muvars(MuNext)

-----------------------------------------------------------------------------
(* Properties. *)

Originals == {OldSymbol[n] : n \in Names \cap DOMAIN OldSymbol}

(* "true if a breakpoint has been set at the address of original_address":   *)
(* what the manager notes of its breakpoints is what the address space has.  *)
StatusIsTrue ==
  user = {func_mappings[n].orig : n \in {m \in DOMAIN func_mappings : func_mappings[m].bp}}

(* No original of a modified function is executed: its breakpoint is set in  *)
(* time, and the task that reaches it goes to the new version.               *)
OriginalsNotRun ==
  [][\A t \in Tasks : \A q \in pos[t] .. pos'[t] - 1 : Code[t][q] \notin Originals]_muvars

(* The task goes live in the new version of the function it was about to     *)
(* execute, and with the frame it goes live at all replay stops.             *)
LiveInOwnVersion ==
  [][/\ has_diverged' # has_diverged =>
          /\ has_diverged'
          /\ running' \in DOMAIN OldSymbol
          /\ OldSymbol[running'] = Code[current_task][pos[current_task]]
     /\ has_diverged => UNCHANGED <<frame, action, pos>>]_muvars

(* Frame k of a trace is the one during which its task reaches the original  *)
(* of a modified function.                                                   *)
Reaches(tr, k) ==
  LET before == {tr[j].at : j \in {i \in 1 .. k - 1 : tr[i].tid = tr[k].tid}}
  IN  \E q \in 1 .. tr[k].at - 1 :
        Code[tr[k].tid][q] \in Originals /\ \A p \in before : p <= q

(* A modified function is reached, and only in frames that are followed by   *)
(* one of the same task: the manager looks at the task of the next frame.    *)
HitsNoticed ==
  /\ \E k \in DOMAIN trace : Reaches(trace, k)
  /\ \A k \in DOMAIN trace :
       Reaches(trace, k) => k < Len(trace) /\ trace[k + 1].tid = trace[k].tid

(* Mutable replay meets no failed check, and jumps to no missing function    *)
(* ("mod_address is set when the code is loaded into memory").               *)
NoMuFault == HitsNoticed => fault = "none"

(* Mutable replay ends: "Tracees are dead don't call muplay_step() again".   *)
MuEnds == <>(mu_status = "MUPLAY_EXITED")

(* It does so whenever a modified function is reached and the hit noticed.   *)
MuEndsAfterHit == HitsNoticed => MuEnds

(* "It goes live and diverges when appropriate, but will converge and read   *)
(* from the log as well": a session that went live goes back to the trace.   *)
Converges == has_diverged ~> ~has_diverged

(* "returns true if at the address of a modified function": with the current *)
(* task stopped at the original of an armed function, the manager jumps.     *)
StopsAreSeen ==
  LET path == Live[running]
      Stopped == /\ has_diverged /\ ~exited
                 /\ \E n \in ArmedFunctions(func_mappings) :
                      func_mappings[n].orig = path[lpos]
  IN  Stopped ~> ~Stopped

(* "rr muplay -x=/metadata_path": only a session given a place for the       *)
(* metadata stops when it has loaded the patch.                              *)
ExitsEarlyOnRequest ==
  mu_status = "MUPLAY_EXITED" /\ ~has_diverged => at_end \/ MetadataOutput
=============================================================================
