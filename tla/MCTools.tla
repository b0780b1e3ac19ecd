------------------------------ MODULE MCTools ------------------------------
(* The data structures of the tools: struct frame, the firmware file, and  *)
(* carlu's accounts of frames when memory is short and transfers fail; and *)
(* of the configuration tool the files it leaves for the build and its     *)
(* search for recursive dependencies.  The parts share no state, so only   *)
(* one of them moves in a behaviour, and the others stay as they begin.    *)
EXTENDS FrameBuf, TLC

CONSTANTS
  Frames, chunks, DmaChunks, MaxUrbs, Cookies, MayFail, MaxLeaks,     \* HostTx
  Ops, Addresses, Bits, MaxLength, MaxWords, Mini, MaxRuns,           \* FwFile
  ConfSyms, MaxSaves,                                                 \* KAuto
  Syms, Choice, ValueList, NoSym, MaxDeps                             \* KDeps

VARIABLES
  part,     \* the part that moves
  ref, cookie, frame_cookie, used_dma_chunks, tx_pending, tx_sent_queue, tx_queue,
  tx_queue_len, urbs, firmware, statuses, pc, cur, evpc, evframe, failed, lost, unowned,
  confused,
  file, fw, out, tool, runs, want, body,
  save_cur, config, old, generated, fresh, touched, built, save_pc, todo, saves,
  deps, pending, stack, ret, check, checked, paths, zconfnerrs

(* The files a build may have made: without a miniboot image or a checksum;*)
(* and one with a text, an old checksum that nobody knows any more, and a  *)
(* word behind LAST.                                                       *)
Record(name, known, words) ==
  <<<<"magic", name>>, <<"head", Len(words) + 2, known>>>> \o words
Otar == Record("OTAR", TRUE, <<<<"miniboot", 0>>>>)
Image == <<<<"code", 1>>, <<"code", 2>>>>
Plain == Image \o Otar \o Record("LAST", TRUE, <<>>)
Full == Image \o Otar \o Record("MOTD", TRUE, <<<<"text">>>>)
              \o Record("CHK", FALSE, <<<<"old">>, <<"old">>>>)
              \o Record("LAST", TRUE, <<>>) \o <<<<"code", 3>>>>

(* Two small frames and a large one.                                       *)
MCChunks == "f1" :> 1 @@ "f2" :> 1 @@ "f3" :> 2

(* A choice between two symbols.                                           *)
MCValues == <<"opt1", "opt2">>

Tx == INSTANCE HostTx
File == INSTANCE FwFile WITH MaxSize <- MaxWords, Starts <- {Plain, Full}, mem <- fw

ASSUME TxAssumption == Tx!Sizes

Conf == INSTANCE KAuto WITH
  Syms <- ConfSyms, MaxRuns <- MaxSaves, cur <- save_cur, out <- generated, pc <- save_pc,
  runs <- saves
Deps == INSTANCE KDeps

ASSUME DepsAssumption == Deps!Sizes

txVars == <<ref, cookie, frame_cookie, used_dma_chunks, tx_pending, tx_sent_queue, tx_queue,
            tx_queue_len, urbs, firmware, statuses, pc, cur, evpc, evframe, failed, lost,
            unowned, confused>>
fileVars == <<file, fw, out, tool, runs, want, body>>
saveVars == <<save_cur, config, old, generated, fresh, touched, built, save_pc, todo, saves>>
depsVars == <<deps, pending, stack, ret, check, checked, paths, zconfnerrs>>
-----------------------------------------------------------------------------
(* A part that does not move is at one of its initial states, or, in the   *)
(* configuration tool, has no values.                                      *)
AllInit ==
  /\ part \in {"frame", "tx", "file", "save", "deps"} /\ Init /\ Tx!Init /\ File!Init
  /\ part # "file" => file = Plain
  /\ IF part = "save" THEN Conf!Init
     ELSE /\ save_cur = 0 /\ config = 0 /\ old = 0 /\ generated = 0 /\ fresh = 0 /\ touched = 0
          /\ built = 0 /\ save_pc = 0 /\ todo = 0 /\ saves = 0
  /\ IF part = "deps" THEN Deps!Init
     ELSE /\ deps = 0 /\ pending = 0 /\ stack = 0 /\ ret = 0 /\ check = 0 /\ checked = 0
          /\ paths = 0 /\ zconfnerrs = 0

FrameStep == part = "frame" /\ Next /\ UNCHANGED <<part, txVars, fileVars, saveVars, depsVars>>
TxStep == part = "tx" /\ Tx!Next /\ UNCHANGED <<part, vars, fileVars, saveVars, depsVars>>
FileStep == part = "file" /\ File!Next /\ UNCHANGED <<part, vars, txVars, saveVars, depsVars>>
SaveStep == part = "save" /\ Conf!Next /\ UNCHANGED <<part, vars, txVars, fileVars, depsVars>>
DepsStep == part = "deps" /\ Deps!Next /\ UNCHANGED <<part, vars, txVars, fileVars, saveVars>>

AllNext == FrameStep \/ TxStep \/ FileStep \/ SaveStep \/ DepsStep
allVars == <<part, vars, txVars, fileVars, saveVars, depsVars>>

AllSpec == AllInit /\ [][AllNext]_allVars
-----------------------------------------------------------------------------
(* The properties of the parts, as their modules state them.               *)
(* carlu_alloc_dev_mem, frame_get, frame_free: the device memory that      *)
(* counts as used is that of the frames carlu waits to hear of, the slots  *)
(* in use are those of the transfers in flight and of those that failed,   *)
(* and what a list, a transfer or a thread holds is alive until the driver *)
(* is closed.                                                              *)
AccountsHold == Tx!MemAccounted /\ Tx!SlotsCounted /\ Tx!HeldIsAlive

(* carlfw_load reads back what carlfw_store has written, nothing loads     *)
(* after a store that did not end, and the overrides in a file are those   *)
(* the user asked eeprom_fix for; a descriptor of the maximal length, which*)
(* may be stored, is not read, and nothing behind it.                      *)
FileKeeps == part = "file" => File!LoadsBack /\ File!TornNotLoaded /\ File!OverridesKept

(* conf_split_config: what depends on a symbol is built again when the     *)
(* symbol has changed, however many runs were cut short, and files that    *)
(* the build takes for fresh agree with the configuration.                 *)
NothingStale == part = "save" => Conf!NothingStale /\ Conf!FreshMeansAgree

(* sym_check_deps: a printed path is a recursion, without the printed      *)
(* paths there is none, and no flag is left behind.                        *)
BreakingIsEnough ==
  part = "deps" => Deps!BreakingIsEnough /\ Deps!PrintedIsCycle /\ Deps!FlagsOnStack
=============================================================================
