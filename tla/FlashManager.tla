---------------------------- MODULE FlashManager ----------------------------
(***************************************************************************)
(* The flash manager (mesh/core/src/flash_manager.c): entries in an area   *)
(* of flash, replaced and invalidated one word at a time, with the power   *)
(* failing between any two words, and the compaction of a full area by way *)
(* of a recovery page (flash_manager_defrag.c).                            *)
(*                                                                         *)
(* An area is one page, as in every configuration of the repository.  The  *)
(* page is its metadata and SIZE words; an entry is a header word with its *)
(* handle and length, and data words.  A word of flash can only lose bits  *)
(* until it is erased: a header may be written over a seal and an          *)
(* invalidation over a header.  Erasing a page, and writing its metadata,  *)
(* is one step.                                                            *)
(***************************************************************************)
EXTENDS Integers, Sequences, FiniteSetsExt

CONSTANTS
  SIZE,         \* words of a page behind its metadata
  Handles,      \* handles that represent data
  LEN,          \* the length of each handle's entry, header included
  VALUES,       \* what the entries hold
  MIN_SPACE,    \* min_available_space of the manager, in words
  QUEUE_LEN     \* how many actions the action queue takes

ASSUME FlashManagerAssumption ==
  /\ SIZE \in Nat /\ SIZE > 2
  /\ LEN \in [Handles -> 2..(SIZE - 1)]
  /\ VALUES \subseteq Nat \ {0}
  /\ MIN_SPACE \in Nat /\ QUEUE_LEN \in Nat
  /\ Handles \cap {"blank", "seal", "padding", "invalid", "data"} = {}

VARIABLES
  page,       \* the area: its metadata and words
  recovery,   \* the recovery page: the pointer, and a page that is a word shorter
  ram         \* the flash manager, the defragmentation and the flash operations

vars == <<page, recovery, ram>>

-----------------------------------------------------------------------------
(* Words and pages *)

NONE == 0   \* no value

Word(handle, len, value) == [handle |-> handle, len |-> len, value |-> value]

\* The short headers have a length (0xFFFF) that leads out of any area.
Blank == Word("blank", SIZE, NONE)
SealHeader == Word("seal", SIZE, NONE)
PaddingHeader == Word("padding", SIZE, NONE)
InvalidHeader == Word("invalid", SIZE, NONE)

Places == 0..(SIZE - 1)

BlankPage == [meta |-> FALSE, words |-> [i \in Places |-> Blank]]

\* What a word holds after "new" is written over "old".  INVALID_HEADER clears
\* the handle and keeps the length.
Written(old, new) == IF new = InvalidHeader THEN [old EXCEPT !.handle = "invalid"] ELSE new

\* get_next_entry.  Behind a padding, and behind the short headers, the area ends.
NextEntry(words, i) == IF i + words[i].len > SIZE THEN SIZE ELSE i + words[i].len

\* Where a walk goes on from each place.  It stops at a blank word or a seal.
Onward(words) ==
  [i \in 0..SIZE |->
     IF i = SIZE \/ words[i].handle \in {"blank", "seal"} THEN i ELSE NextEntry(words, i)]

\* The places of the entries on a walk from the first one
Entries(words) ==
  LET onward == Onward(words)
      from[i \in 0..SIZE] == IF onward[i] = i THEN {} ELSE {i} \cup from[onward[i]]
  IN from[0]

\* Where the walk ends: at a blank word, at the seal, or out of the area.
WalkEnd(words) ==
  LET onward == Onward(words)
      end[i \in 0..SIZE] == IF onward[i] = i THEN i ELSE end[onward[i]]
  IN end[0]

EntriesOf(words, handle) == {i \in Entries(words) : words[i].handle = handle}

Sealed(words) ==
  LET end == WalkEnd(words) IN end < SIZE /\ words[end].handle = "seal"

\* get_last_entry, which is the seal if there is one
LastEntry(words) ==
  IF Sealed(words) THEN WalkEnd(words) ELSE Max(Entries(words))

InvalidWords(words) ==
  MapThenSumSet(LAMBDA i : words[i].len, EntriesOf(words, "invalid"))

-----------------------------------------------------------------------------
(* Flash operations, a word (or an erase) each *)

Op(on, write, at, word) == [on |-> on, write |-> write, at |-> at, word |-> word]

Erase(on) == Op(on, "erase", 0, Blank)
WriteMeta(on) == Op(on, "meta", 0, Blank)
WriteWord(on, at, word) == Op(on, "word", at, word)
SetPointer == Op("recovery", "pointer", 0, Blank)
ClearPointer == Op("recovery", "no_pointer", 0, Blank)

Performed(area, op) ==
  CASE op.write = "erase" -> [area EXCEPT !.meta = FALSE, !.words = BlankPage.words]
    [] op.write = "meta"  -> [area EXCEPT !.meta = TRUE]
    [] op.write = "word"  -> [area EXCEPT !.words[op.at] = Written(@, op.word)]
    [] OTHER              -> area

\* The recovery page's pointer to the page under defragmentation
Pointer(ptr, op) ==
  CASE op.on = "page" -> ptr
    [] op.write = "erase" -> "blank"
    [] op.write = "pointer" -> "set"
    [] op.write = "no_pointer" -> "null"
    [] OTHER -> ptr

\* The words of an entry, header first
EntryWords(handle, value) ==
  [j \in 1..LEN[handle] |-> IF j = 1 THEN Word(handle, LEN[handle], NONE)
                            ELSE Word("data", 0, value)]

EntryOps(at, handle, value) ==
  [j \in 1..LEN[handle] |-> WriteWord("page", at + j - 1, EntryWords(handle, value)[j])]

-----------------------------------------------------------------------------
(* flash_manager.c *)

Action(op, handle, value, own) ==
  [op |-> op, handle |-> handle, value |-> value, own |-> own]

BuildMetadata == Action("build_metadata", "blank", NONE, "boot")
RecoverSeal == Action("recover_seal", "blank", NONE, "boot")

(***************************************************************************)
(* The fields of ram: "mode" is m_state, or "halted" when an assertion     *)
(* failed; "state" is that of the manager ("building", "ready", "defrag"); *)
(* "seal" is p_seal; "phase" is that of the action at the head of "queue"; *)
(* "ops" are the flash operations to do; "owner" says whether p_manager of *)
(* the defragmentation is known, which "defrag" and "found_all" follow.    *)
(***************************************************************************)
Halt(r) == [r EXCEPT !.mode = "halted", !.ops = <<>>]

FreePacketBuffer(r) == [r EXCEPT !.queue = Tail(@), !.phase = "idle"]

\* entry_get from the first entry on
Found(handle) == EntriesOf(page.words, handle)

InvalidateAhead(r, handle) ==   \* Mutant: the old entry goes before the new one is there
  LET old == Min(Found(handle)) IN
  [r EXCEPT !.invalid = @ + page.words[old].len,
            !.ops = <<WriteWord("page", old, InvalidHeader)>> \o @]

\* The invalidation of the first entry of a handle: its bytes count at once.
InvalidateFirst(r, handle) ==
  LET old == Min(Found(handle)) IN
  [r EXCEPT !.invalid = @ + page.words[old].len,
            !.ops = Append(@, WriteWord("page", old, InvalidHeader))]

ExecuteReplace(r, a) ==
  LET seal    == r.seal + LEN[a.handle]
      written == [r EXCEPT !.phase = "wait",
                           !.ops = EntryOps(r.seal, a.handle, a.value)
                                   \o <<WriteWord("page", seal, SealHeader)>>]
  IN IF seal >= SIZE THEN FreePacketBuffer(r)   \* AREA_FULL
     ELSE IF Found(a.handle) = {} THEN written
     ELSE InvalidateFirst(written, a.handle)

ExecuteInvalidate(r, a) ==
  IF Found(a.handle) = {} THEN FreePacketBuffer(r)   \* NOT_FOUND
  ELSE InvalidateFirst([r EXCEPT !.phase = "wait"], a.handle)

ExecuteBuildMetadata(r) == [r EXCEPT !.phase = "wait", !.ops = <<WriteMeta("page")>>]

\* Invalidates the last entry, and places the seal behind it.
ExecuteRecoverSeal(r) ==
  LET last    == LastEntry(page.words)
      next    == NextEntry(page.words, last)
      invalid == IF page.words[last].handle = "invalid" THEN <<>>
                 ELSE <<WriteWord("page", last, InvalidHeader)>>
      sealed  == IF next >= SIZE THEN <<>> ELSE <<WriteWord("page", next, SealHeader)>>
  IN IF Entries(page.words) = {} /\ ~Sealed(page.words) THEN Halt(r)
     ELSE [r EXCEPT !.phase = "wait", !.seal = next, !.ops = invalid \o sealed]

ExecuteAction(r, a) ==
  CASE a.op = "replace"        -> ExecuteReplace(r, a)
    [] a.op = "invalidate"     -> ExecuteInvalidate(r, a)
    [] a.op = "build_metadata" -> ExecuteBuildMetadata(r)
    [] a.op = "recover_seal"   -> ExecuteRecoverSeal(r)

EndActionStale(r, a) ==   \* Mutant: the seal stays where it was
  IF a.op = "build_metadata" THEN FreePacketBuffer([r EXCEPT !.state = "ready"])
  ELSE FreePacketBuffer(r)

EndAction(r, a) ==
  LET seal == r.seal + LEN[a.handle] IN
  CASE a.op = "replace" ->
         IF page.words[seal].handle = "seal"
         THEN FreePacketBuffer([r EXCEPT !.seal = seal]) ELSE Halt(r)
    [] a.op = "build_metadata" ->
         IF r.state = "building"
         THEN FreePacketBuffer([r EXCEPT !.state = "ready"]) ELSE Halt(r)
    [] OTHER -> FreePacketBuffer(r)

RequiredSpace(a) == IF a.op = "replace" THEN LEN[a.handle] ELSE 0

DefragRequired(r, a) ==
  /\ a.op \in {"replace", "invalidate"}
  /\ SIZE - MIN_SPACE - r.seal <= RequiredSpace(a)
  /\ r.invalid # 0

-----------------------------------------------------------------------------
(* flash_manager_defrag.c: each step of the procedure that waits for the flash *)

\* The words of the data entries, one behind the other
LiveWords(words) ==
  LET data == {i \in Entries(words) : words[i].handle \in Handles}
      live == UNION {i..(i + words[i].len - 1) : i \in data}
      copied[n \in 0..SIZE] ==
        IF n = 0 THEN <<>>
        ELSE IF n - 1 \in live THEN Append(copied[n - 1], words[n - 1]) ELSE copied[n - 1]
  IN copied[SIZE]

WriteAll(on, words) == [j \in DOMAIN words |-> WriteWord(on, j - 1, words[j])]

\* erase_recovery_area, copy_metadata, backup_entries, write_defrag_start_pointer
\* and erase_source
BackupOps ==
  <<Erase("recovery"), WriteMeta("recovery")>> \o WriteAll("recovery", LiveWords(page.words))
  \o <<SetPointer, Erase("page")>>

\* The recovery page is a word short, the pointer's.
WriteBackOps ==
  (IF recovery.meta THEN <<WriteMeta("page")>> ELSE <<>>)
    \o WriteAll("page", [j \in 1..(SIZE - 1) |-> recovery.words[j - 1]])

SealOpsPadded(r) ==   \* Mutant: the last page of the area is padded
  LET end == WalkEnd(page.words) IN
  IF end \in {0, SIZE} THEN <<>> ELSE <<WriteWord("page", end, PaddingHeader)>>

\* seal_storage_page, at the first blank header unless that is the first one
SealOps(r) ==
  LET end    == WalkEnd(page.words)
      header == IF r.found_all THEN SealHeader ELSE PaddingHeader
  IN IF end \in {0, SIZE} \/ Sealed(page.words) THEN <<>>
     ELSE <<WriteWord("page", end, header)>>

DefragEndedStale(r) ==   \* Mutant: the seal is not looked up again
  [r EXCEPT !.mode = "ready", !.defrag = "none", !.found_all = FALSE, !.owner = FALSE,
            !.state = "ready", !.invalid = 0]

\* flash_manager_on_defrag_end
DefragEnded(r) ==
  LET ended == [r EXCEPT !.mode = "ready", !.defrag = "none", !.found_all = FALSE,
                         !.owner = FALSE]
  IN IF ~r.owner THEN ended
     ELSE IF ~Sealed(page.words) THEN Halt(r)
     ELSE [ended EXCEPT !.state = "ready", !.invalid = 0, !.seal = WalkEnd(page.words)]

\* flash_manager_defrag: all entries of a single page fit in the recovery page,
\* so that the backup finds them all.
DefragStarted(r) ==
  LET started == [r EXCEPT !.phase = "processing", !.mode = "defrag", !.state = "defrag",
                           !.owner = TRUE]
  IN IF EntriesOf(page.words, "invalid") = {} THEN DefragEnded(started)
     ELSE [started EXCEPT !.defrag = "backup", !.found_all = TRUE, !.ops = BackupOps]

DefragContinued(r) ==
  CASE r.defrag = "backup"     -> [r EXCEPT !.defrag = "write_back", !.ops = WriteBackOps]
    [] r.defrag = "write_back" -> [r EXCEPT !.defrag = "seal", !.ops = SealOps(r)]
    [] r.defrag = "seal"       -> [r EXCEPT !.defrag = "end", !.ops = <<ClearPointer>>]
    [] r.defrag = "end"        -> DefragEnded(r)

-----------------------------------------------------------------------------
(* Boot: flash_manager_init, then flash_manager_add *)

\* flash_manager_init.  A set pointer resumes the defragmentation with the erase
\* of the page: whose area it is, and whether the backup has all entries, is
\* not known.
Initialized(rec) ==
  LET resume == rec.ptr = "set" IN
  [mode |-> IF resume THEN "defrag" ELSE "ready",
   state |-> "building", seal |-> 0, invalid |-> 0, queue |-> <<>>, phase |-> "idle",
   ops |-> IF resume THEN <<Erase("page")>> ELSE <<>>,
   defrag |-> IF resume THEN "backup" ELSE "none",
   found_all |-> FALSE, owner |-> FALSE]

DuplicatesLeft(words, seal) == {}   \* Mutant

\* An earlier entry of the handle of the last entry before the seal
Duplicates(words, seal) ==
  LET before == {i \in Entries(words) : i < seal} IN
  IF before = {} \/ words[Max(before)].handle \notin Handles THEN {}
  ELSE {i \in EntriesOf(words, words[Max(before)].handle) : i < Max(before)}

\* flash_manager_add
Added(words, meta, r) ==
  LET empty  == Entries(words) = {} /\ ~Sealed(words)
      seal   == IF empty THEN 0 ELSE LastEntry(words)
      dup    == Duplicates(words, seal)
      repair == IF empty \/ Sealed(words) THEN <<>> ELSE <<RecoverSeal>>
      invalidate ==
        IF dup = {} THEN <<>>
        ELSE <<Action("invalidate", words[Min(dup)].handle, NONE, "boot")>>
  IN IF ~meta THEN [r EXCEPT !.queue = <<BuildMetadata>>]
     ELSE IF WalkEnd(words) = SIZE THEN Halt(r)
     ELSE [r EXCEPT !.state = "ready", !.invalid = InvalidWords(words), !.seal = seal,
                    !.queue = repair \o invalidate]

Booted == Added(page.words, page.meta, Initialized(recovery))

-----------------------------------------------------------------------------
(* Actions *)

Init ==
  /\ page = BlankPage
  /\ recovery = [ptr |-> "blank", meta |-> FALSE, words |-> BlankPage.words]
  /\ ram = Booted

\* flash_manager_entry_alloc with flash_manager_entry_commit, and
\* flash_manager_entry_invalidate
Requests ==
  {Action("replace", h, v, "user") : h \in Handles, v \in VALUES}
    \cup {Action("invalidate", h, NONE, "user") : h \in Handles}

Request(a) ==
  /\ ram.mode # "halted" /\ Len(ram.queue) < QUEUE_LEN
  /\ ram' = [ram EXCEPT !.queue = Append(@, a)]
  /\ UNCHANGED <<page, recovery>>

UserRequest == \E a \in Requests : Request(a)

ProcessActionOnce ==   \* Mutant: nothing is scheduled when a defragmentation ends
  /\ ram.mode = "ready" /\ ram.queue # <<>> /\ ram.phase = "idle"
  /\ ram' = IF DefragRequired(ram, Head(ram.queue))
            THEN DefragStarted(ram) ELSE ExecuteAction(ram, Head(ram.queue))
  /\ UNCHANGED <<page, recovery>>

\* process_action_queue takes up the oldest action, or goes on after a
\* defragmentation.
ProcessAction ==
  /\ ram.mode = "ready" /\ ram.queue # <<>> /\ ram.phase # "wait"
  /\ ram' = IF ram.phase = "idle" /\ DefragRequired(ram, Head(ram.queue))
            THEN DefragStarted(ram) ELSE ExecuteAction(ram, Head(ram.queue))
  /\ UNCHANGED <<page, recovery>>

\* The flash gets to the next word.
FlashOperation ==
  /\ ram.ops # <<>>
  /\ LET op == Head(ram.ops) IN
     /\ page' = IF op.on = "page" THEN Performed(page, op) ELSE page
     /\ recovery' = IF op.on = "page" THEN recovery
                    ELSE [Performed(recovery, op) EXCEPT !.ptr = Pointer(recovery.ptr, op)]
  /\ ram' = [ram EXCEPT !.ops = Tail(@)]

\* flash_op_ended_callback for the last operation of an action
ActionDone ==
  /\ ram.mode = "ready" /\ ram.phase = "wait" /\ ram.ops = <<>>
  /\ ram' = EndAction(ram, Head(ram.queue))
  /\ UNCHANGED <<page, recovery>>

\* on_flash_op_end, when all operations are done
DefragStep ==
  /\ ram.mode = "defrag" /\ ram.ops = <<>>
  /\ ram' = DefragContinued(ram)
  /\ UNCHANGED <<page, recovery>>

PowerCycle == ram' = Booted /\ UNCHANGED <<page, recovery>>

Operate == ProcessAction \/ FlashOperation \/ ActionDone \/ DefragStep

Next == UserRequest \/ Operate \/ PowerCycle

Spec == Init /\ [][Next]_vars

-----------------------------------------------------------------------------
(* What is stored, and what is read *)

TORN == -1   \* what a reader finds in an entry that is not written to its end

\* The value of the entry at i, which fills all its data words.
Value(words, i) ==
  LET values == {words[j].value : j \in (i + 1)..(i + words[i].len - 1)} IN
  IF \E v \in VALUES : values = {v} THEN CHOOSE v \in VALUES : values = {v} ELSE TORN

\* The last entry of a handle that counts, or NOWHERE.  An entry counts when
\* something is written behind it, as its writer does; in a backup they all do.
NOWHERE == -1

LastOf(words, handle, backup) ==
  LET onward == Onward(words)
      Counts(i) == backup \/ (i < SIZE /\ words[i] # Blank)
      last[walk \in (0..SIZE) \X ({NOWHERE} \cup Places)] ==
        LET i == walk[1]
            found == walk[2]
        IN IF onward[i] = i THEN found
           ELSE last[<<onward[i], IF words[i].handle = handle /\ Counts(onward[i])
                                  THEN i ELSE found>>]
  IN last[<<0, NOWHERE>>]

StoredIn(words, handle, backup) ==
  LET i == LastOf(words, handle, backup) IN IF i = NOWHERE THEN NONE ELSE Value(words, i)

\* The values that would survive a power failure now: those of the backup while
\* the pointer is set, else those of the page.
Stored ==
  [h \in Handles |->
     IF recovery.ptr = "set" THEN StoredIn(recovery.words, h, TRUE)
     ELSE StoredIn(page.words, h, FALSE)]

\* flash_manager_entry_get
Read(handle) ==
  IF ram.state # "ready" \/ Found(handle) = {} THEN NONE
  ELSE Value(page.words, Min(Found(handle)))

\* All requests are carried out.
Settled == ram.queue = <<>> /\ ram.defrag = "none"

\* The action that is being carried out has its effect on what is stored: the
\* new seal is written, or the entry is invalidated.
Effective ==
  /\ ram.phase = "wait"
  /\ IF Head(ram.queue).op = "replace"
     THEN \A j \in DOMAIN ram.ops : ram.ops[j].word # SealHeader
     ELSE ram.ops = <<>>

\* The users' requests that had no effect yet: what boot has queued is before them.
UsersOf(queue) ==
  LET boot == {j \in DOMAIN queue : queue[j].own = "boot"}
  IN IF boot = {} THEN queue ELSE SubSeq(queue, Max(boot) + 1, Len(queue))

Pending == UsersOf(IF Effective THEN Tail(ram.queue) ELSE ram.queue)

-----------------------------------------------------------------------------
(* The users and power failures that the properties are about *)

\* One handle is stored first and never invalidated, as the device state manager
\* does with its metainfo: from then on the area is never without a live entry.
KeptRequest(kept) == \E a \in Requests :
  /\ a.op = "replace" => a.handle = kept \/ Stored[kept] # NONE
  /\ a.op = "invalidate" => a.handle # kept
  /\ Request(a)

\* The power does not fail before that, nor while a defragmentation relies on the
\* recovery page.
KeptPowerCycle(kept) == Stored[kept] # NONE /\ recovery.ptr # "set" /\ PowerCycle

KeptNext(kept) == KeptRequest(kept) \/ Operate \/ KeptPowerCycle(kept)

KeptSpec(kept) == Init /\ [][KeptNext(kept)]_vars

-----------------------------------------------------------------------------
(* Properties *)

\* No assertion of the flash manager fails: whenever the power fails, the boot
\* finds the area valid (get_invalid_bytes in flash_manager_add), and the seal is
\* where an action or a defragmentation left it.
NeverHalts == ram.mode # "halted"

\* When all is done, each handle has one entry and a reader finds what is stored:
\* replaced entries are invalidated and torn ones gone, those that a power failure
\* left included.
ReadsStored ==
  Settled => \A h \in Handles : Cardinality(Found(h)) <= 1 /\ Read(h) = Stored[h]

\* Between actions, the seal the manager works with is where a walk of the area
\* ends: a new entry goes behind all others.
SealKnown ==
  ram.mode = "ready" /\ ram.state = "ready" /\ ram.phase = "idle"
    /\ RecoverSeal \notin {ram.queue[j] : j \in DOMAIN ram.queue}
  => ram.seal = WalkEnd(page.words)

\* Flash is only written where that clears bits: blank words, the seal under a
\* new entry, and a header that is invalidated.
OverwriteLegal(old, new) ==
  \/ old = Blank
  \/ old = SealHeader /\ new.handle \in Handles
  \/ old.handle \in Handles /\ new = InvalidHeader

WritesLegal ==
  [][\A i \in Places : page'.words[i] # page.words[i] /\ page'.meta = page.meta
       => OverwriteLegal(page.words[i], IF page'.words[i].handle = "invalid"
                                        THEN InvalidHeader ELSE page'.words[i])]_vars

\* A full action queue gets room again: whatever an action needs, a
\* defragmentation included, it ends, and the users who wait for room are told.
RequestsEnd == Len(ram.queue) >= QUEUE_LEN ~> Len(ram.queue) < QUEUE_LEN

\* The flash manager is a store: a request takes effect as a whole, in its turn,
\* or not at all, and neither a power failure nor a defragmentation changes what
\* is stored.
Store == INSTANCE FlashStore WITH
  None <- NONE, store <- Stored, pending <- Pending

ImplementsStore == Store!Spec
=============================================================================
