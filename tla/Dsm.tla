-------------------------------- MODULE Dsm --------------------------------
(***************************************************************************)
(* The device state manager (device_state_manager.c): subnets, the         *)
(* application and device keys that are bound to them, and non-virtual     *)
(* addresses, in RAM and, entry by entry, in an area of the flash manager. *)
(* What does not fit into the queue of the flash manager is marked and     *)
(* written when a packet of the queue is freed.  The power may fail        *)
(* between any two writes.                                                 *)
(***************************************************************************)
EXTENDS Integers, FiniteSets, SequencesExt

CONSTANTS
  SUBNETS, APPKEYS, DEVKEYS, ADDRESSES,   \* the handles there are of each type
  GROUPS,           \* group addresses
  ROOM,             \* packets the queue of the flash manager has room for
  CHANGES,          \* bound: calls of the interface, and of other users of the queue
  POWER_FAILURES    \* bound: power failures

VARIABLE dsm

NONE == [key |-> 0]     \* no entry in flash

KEYS == {1, 2}

\* What a key is replaced by.
NewKey(key) == 3 - key

Ids == ({"subnet"} \X SUBNETS) \cup ({"appkey"} \X APPKEYS)
         \cup ({"devkey"} \X DEVKEYS) \cup ({"address"} \X ADDRESSES)

\* The order of dsm_entry_type_t, and of the handles of a type.
Before(a, b) ==
  LET type == [address |-> 1, subnet |-> 2, appkey |-> 3, devkey |-> 4]
  IN  \/ type[a[1]] < type[b[1]]
      \/ type[a[1]] = type[b[1]] /\ a[2] < b[2]

InOrder ==
  [k \in 1..Cardinality(Ids) |->
     CHOOSE id \in Ids : Cardinality({other \in Ids : Before(other, id)}) = k - 1]

Zero == [address |-> [address |-> 0, published |-> 0, subscribed |-> 0],
         subnet  |-> [index |-> 0, key |-> 0, updated |-> 0, phase |-> 0],
         appkey  |-> [index |-> 0, subnet |-> 0, key |-> 0, updated |-> 0],
         devkey  |-> [owner |-> 0, subnet |-> 0, key |-> 0]]

-----------------------------------------------------------------------------
(* The entries in flash *)

\* What an entry looks like in flash: no counts, and an updated key only while it
\* is being refreshed.
ToFlash(d, id) ==
  LET value == d.ram[id] IN
  CASE id[1] = "address" -> [value EXCEPT !.published = 0, !.subscribed = 0]
    [] id[1] = "subnet"  -> [value EXCEPT !.updated = IF value.phase = 0 THEN 0 ELSE @]
    [] OTHER             -> value

HasRoom(d) == Len(d.queue) < ROOM

Queued(d, action) == [d EXCEPT !.queue = Append(@, action)]

\* flash_manager_mem_listener_register
Listen(d, listener) ==
  [d EXCEPT !.listeners = IF Contains(@, listener) THEN @ ELSE Append(@, listener)]

FlashDo(d, id, value) ==
  IF d.available /\ HasRoom(d)
  THEN Queued(d, [entry |-> id, value |-> value])
  ELSE Listen([d EXCEPT !.marked = @ \cup {id}], "update_all")

FlashSave(d, id) == FlashDo(d, id, ToFlash(d, id))

FlashInvalidate(d, id) == FlashDo(d, id, NONE)

\* Mutant: the first entry that is marked is written, and the others forgotten.
FlashUpdateAllForgets(d) ==
  LET Update(done, id) ==
        IF id \notin done.marked THEN done
        ELSE [(IF id \in done.allocated THEN FlashSave(done, id) ELSE FlashInvalidate(done, id))
                EXCEPT !.marked = {}]
  IN  FoldLeft(Update, d, InOrder)

\* Once one entry does not fit, none does: marked entries remain marked.
FlashUpdateAll(d) ==
  LET Update(done, id) ==
        LET saved == IF id \in done.allocated THEN FlashSave(done, id)
                     ELSE FlashInvalidate(done, id)
        IN  IF id \notin done.marked THEN done
            ELSE [saved EXCEPT !.marked = IF done.available /\ HasRoom(done) THEN @ \ {id} ELSE @]
  IN  FoldLeft(Update, d, InOrder)

ResetFlashArea(d) ==
  LET removed == [d EXCEPT !.available = FALSE]
  IN  IF HasRoom(d) THEN Queued([removed EXCEPT !.manager = "REMOVING"], [entry |-> "erase"])
      ELSE Listen(removed, "reset")

\* A new area gets the metadata of its page and then the metainfo; an area with
\* metadata is taken as it is.
BuildFlashArea(d) ==
  LET building == [d EXCEPT !.manager = "BUILDING"]
      added    == Queued(building, [entry |-> "metadata"])
  IN  CASE d.metadata -> [d EXCEPT !.manager = "READY", !.available = TRUE]
        [] ~d.metadata /\ HasRoom(d) /\ HasRoom(added) ->
             [Queued(added, [entry |-> "metainfo"]) EXCEPT !.available = TRUE]
        [] ~d.metadata /\ HasRoom(d) /\ ~HasRoom(added) -> Listen(added, "build")
        [] OTHER -> Listen(building, "build")

\* free_packet_buffer: each listener is called once, and may register again.
Freed(d) ==
  LET Notify(done, listener) ==
        CASE listener = "update_all" -> FlashUpdateAll(done)
          [] listener = "reset"      -> ResetFlashArea(done)
          [] listener = "build"      -> BuildFlashArea(done)
  IN  FoldLeft(Notify, [d EXCEPT !.queue = Tail(@), !.listeners = <<>>], d.listeners)

Halt(d, reason) == [d EXCEPT !.halted = IF @ = "no" THEN reason ELSE @]

\* flash_operation_complete and flash_remove_complete, at the end of an action.
Ended(d) ==
  LET action == Head(d.queue) IN
  CASE action.entry = "erase" ->
         BuildFlashArea([d EXCEPT !.flash = [id \in Ids |-> NONE], !.metadata = FALSE,
                                  !.metainfo = FALSE])
    [] action.entry = "metadata" ->
         [(IF d.manager = "BUILDING" THEN d ELSE Halt(d, "built twice"))
            EXCEPT !.metadata = TRUE, !.manager = "READY"]
    [] action.entry = "metainfo" -> [d EXCEPT !.metainfo = TRUE]
    [] action.entry = "other" -> d
    [] OTHER ->
         [(IF action.value = NONE /\ d.flash[action.entry] = NONE THEN Halt(d, "not found") ELSE d)
            EXCEPT !.flash[action.entry] = action.value]

FlashDone ==
  /\ dsm.queue # <<>> /\ dsm.halted = "no"
  /\ dsm' = Freed(Ended(dsm))

-----------------------------------------------------------------------------
(* Boot *)

Booted(d) ==
  BuildFlashArea([d EXCEPT !.ram = [id \in Ids |-> Zero[id[1]]], !.allocated = {}, !.marked = {},
                           !.queue = <<>>, !.listeners = <<>>, !.loaded = FALSE,
                           !.available = FALSE, !.halted = "no"])

Init ==
  dsm = Booted([ram |-> [id \in Ids |-> Zero[id[1]]], allocated |-> {}, marked |-> {},
                flash |-> [id \in Ids |-> NONE], metadata |-> FALSE, metainfo |-> FALSE,
                manager |-> "UNINITIALIZED", queue |-> <<>>, listeners |-> <<>>,
                available |-> FALSE, loaded |-> FALSE, changes |-> 0, failures |-> 0,
                halted |-> "no"])

PowerFailure ==
  /\ dsm.failures < POWER_FAILURES
  /\ dsm' = [Booted(dsm) EXCEPT !.failures = @ + 1]

\* dsm_flash_config_load waits for the flash manager and reads every entry; the
\* functions that set an entry mark it.
FlashConfigLoad ==
  /\ ~dsm.loaded /\ dsm.queue = <<>> /\ dsm.halted = "no"
  /\ LET stored == IF dsm.available /\ dsm.metainfo
                   THEN {id \in Ids : dsm.flash[id] # NONE} ELSE {}
     IN  dsm' = [dsm EXCEPT !.ram = [id \in Ids |-> IF id \in stored THEN dsm.flash[id] ELSE @[id]],
                            !.allocated = stored, !.marked = stored, !.loaded = TRUE]

-----------------------------------------------------------------------------
(* The interface *)

Called == dsm.loaded /\ dsm.halted = "no" /\ dsm.changes < CHANGES

Changed(d) == dsm' = [d EXCEPT !.changes = @ + 1]

\* The free handle with the lowest number, if there is one.
IsFirstFree(d, id) ==
  /\ id \in Ids \ d.allocated
  /\ \A other \in Ids \ d.allocated : other[1] = id[1] => id[2] <= other[2]

Set(d, id, value) ==
  [d EXCEPT !.ram[id] = value, !.allocated = @ \cup {id}, !.marked = @ \cup {id}]

Of(type, d) == {id \in d.allocated : id[1] = type}

SubnetAdd(index, key) ==
  /\ Called
  /\ \A id \in Of("subnet", dsm) : dsm.ram[id].index # index
  /\ \E id \in {"subnet"} \X SUBNETS :
       /\ IsFirstFree(dsm, id)
       /\ Changed(FlashSave(Set(dsm, id, [index |-> index, key |-> key, updated |-> 0,
                                          phase |-> 0]), id))

Resaved(d, id) == FlashSave([d EXCEPT !.marked = @ \cup {id}], id)

SubnetUpdate(id) ==
  /\ Called /\ id \in Of("subnet", dsm) /\ dsm.ram[id].phase = 0
  /\ Changed(Resaved([dsm EXCEPT !.ram[id].phase = 1, !.ram[id].updated = NewKey(dsm.ram[id].key)], id))

SubnetUpdateSwapKeys(id) ==
  /\ Called /\ id \in Of("subnet", dsm) /\ dsm.ram[id].phase = 1
  /\ Changed(Resaved([dsm EXCEPT !.ram[id].phase = 2], id))

\* The application keys are committed and saved before the subnet.
SubnetUpdateCommit(id) ==
  /\ Called /\ id \in Of("subnet", dsm) /\ dsm.ram[id].phase # 0
  /\ LET Commit(done, key) ==
           IF key \in Of("appkey", done) /\ done.ram[key].subnet = id[2]
              /\ done.ram[key].updated # 0
           THEN Resaved([done EXCEPT !.ram[key].key = done.ram[key].updated,
                                     !.ram[key].updated = 0], key)
           ELSE done
         subnet == [dsm EXCEPT !.ram[id].key = dsm.ram[id].updated, !.ram[id].phase = 0]
     IN  Changed(Resaved(FoldLeft(Commit, subnet, InOrder), id))

Deleted(d, id) ==
  FlashInvalidate([d EXCEPT !.allocated = @ \ {id},
                            !.ram[id] = IF id[1] = "devkey" THEN [@ EXCEPT !.owner = 0] ELSE @], id)

\* Mutant: the keys go after their subnet.
SubnetDeleteFirst(id) ==
  /\ Called /\ id \in Of("subnet", dsm)
  /\ LET Delete(done, key) ==
           IF key \in Of("appkey", done) \cup Of("devkey", done) /\ done.ram[key].subnet = id[2]
           THEN Deleted(done, key) ELSE done
     IN  Changed(FoldLeft(Delete, Deleted(dsm, id), InOrder))

\* The keys of the subnet go first.  A device key counts by its owner.
SubnetDelete(id) ==
  /\ Called /\ id \in Of("subnet", dsm)
  /\ LET Delete(done, key) ==
           CASE key \in Of("appkey", done) /\ done.ram[key].subnet = id[2] -> Deleted(done, key)
             [] key[1] = "devkey" /\ done.ram[key].owner # 0 /\ done.ram[key].subnet = id[2] ->
                  IF key \in done.allocated THEN Deleted(done, key) ELSE Halt(done, "no such key")
             [] OTHER -> done
     IN  Changed(Deleted(FoldLeft(Delete, dsm, InOrder), id))

AppkeyAdd(index, subnet, key) ==
  /\ Called /\ subnet \in Of("subnet", dsm)
  /\ \A id \in Of("appkey", dsm) : dsm.ram[id].index # index
  /\ \E id \in {"appkey"} \X APPKEYS :
       /\ IsFirstFree(dsm, id)
       /\ Changed(FlashSave(Set(dsm, id, [index |-> index, subnet |-> subnet[2], key |-> key,
                                          updated |-> 0]), id))

AppkeyUpdate(id) ==
  /\ Called /\ id \in Of("appkey", dsm)
  /\ dsm.ram[<<"subnet", dsm.ram[id].subnet>>].phase = 1
  /\ Changed(Resaved([dsm EXCEPT !.ram[id].updated = NewKey(dsm.ram[id].key)], id))

DevkeyAdd(owner, subnet, key) ==
  /\ Called /\ subnet \in Of("subnet", dsm)
  /\ \A id \in Of("devkey", dsm) : dsm.ram[id].owner # owner
  /\ \E id \in {"devkey"} \X DEVKEYS :
       /\ IsFirstFree(dsm, id)
       /\ Changed(FlashSave(Set(dsm, id, [owner |-> owner, subnet |-> subnet[2], key |-> key]), id))

KeyDelete(id) ==
  /\ Called /\ id \in Of("appkey", dsm) \cup Of("devkey", dsm)
  /\ Changed(Deleted(dsm, id))

\* address_exists: behind the first free handle a handle counts by its address,
\* whether it is allocated or not.
AddressFound(d, id, address) ==
  /\ id[1] = "address" /\ d.ram[id].address = address
  /\ ~IsFirstFree(d, id)

AddressAdd(address, role) ==
  /\ Called
  /\ \E id \in {"address"} \X ADDRESSES :
       \/ /\ AddressFound(dsm, id, address)
          /\ \A other \in {"address"} \X ADDRESSES :
               AddressFound(dsm, other, address) => id[2] <= other[2]
          /\ Changed([dsm EXCEPT !.ram[id][role] = @ + 1])
       \/ /\ \A other \in {"address"} \X ADDRESSES : ~AddressFound(dsm, other, address)
          /\ IsFirstFree(dsm, id)
          /\ LET saved == FlashSave(Set(dsm, id, [Zero["address"] EXCEPT !.address = address]), id)
             IN  Changed([saved EXCEPT !.ram[id][role] = @ + 1])

AddressRemove(id, role) ==
  /\ Called /\ id \in Of("address", dsm) /\ dsm.ram[id][role] > 0
  /\ LET removed == [dsm EXCEPT !.ram[id][role] = @ - 1]
         unused  == removed.ram[id].published = 0 /\ removed.ram[id].subscribed = 0
     IN  Changed(IF unused
                 THEN FlashInvalidate([removed EXCEPT !.allocated = @ \ {id},
                                                      !.ram[id].address = 0], id)
                 ELSE removed)

\* The counts of the addresses are cleared, other values stay in RAM.
Clear ==
  /\ Called
  /\ Changed(ResetFlashArea(
       [dsm EXCEPT !.allocated = {}, !.marked = {},
                   !.ram = [id \in Ids |-> IF id[1] = "address"
                                           THEN [@[id] EXCEPT !.published = 0, !.subscribed = 0]
                                           ELSE @[id]]]))

\* Another user of the flash manager takes room in its queue.
OtherSaves ==
  /\ Called /\ HasRoom(dsm)
  /\ Changed(Queued(dsm, [entry |-> "other"]))

Next ==
  \/ FlashDone
  \/ PowerFailure
  \/ FlashConfigLoad
  \/ \E index \in SUBNETS, key \in KEYS : SubnetAdd(index, key)
  \/ \E id \in Ids : SubnetUpdate(id)
  \/ \E id \in Ids : SubnetUpdateSwapKeys(id)
  \/ \E id \in Ids : SubnetUpdateCommit(id)
  \/ \E id \in Ids : SubnetDelete(id)
  \/ \E index \in APPKEYS, subnet \in Ids, key \in KEYS : AppkeyAdd(index, subnet, key)
  \/ \E id \in Ids : AppkeyUpdate(id)
  \/ \E device \in DEVKEYS, subnet \in Ids, key \in KEYS : DevkeyAdd(device + 1, subnet, key)
  \/ \E id \in Ids : KeyDelete(id)
  \/ \E address \in GROUPS, role \in {"published", "subscribed"} : AddressAdd(address, role)
  \/ \E id \in Ids, role \in {"published", "subscribed"} : AddressRemove(id, role)
  \/ Clear
  \/ OtherSaves

Spec == Init /\ [][Next]_dsm

\* The flash manager works on its queue, and boot loads the configuration.
FairSpec == Spec /\ WF_dsm(FlashDone) /\ WF_dsm(FlashConfigLoad)

-----------------------------------------------------------------------------
Stored ==
  \/ dsm.halted # "no"
  \/ \A id \in Ids : dsm.flash[id] = IF id \in dsm.allocated THEN ToFlash(dsm, id) ELSE NONE

(***************************************************************************)
(* Once the calls are over and nothing halted the device, the flash holds  *)
(* what the RAM holds, however often the queue was full, the area removed  *)
(* or an entry changed again before it was written.                        *)
(***************************************************************************)
StoredInTheEnd == <>[]Stored

(***************************************************************************)
(* An application or device key is bound to a subnet that exists, after    *)
(* every boot too: dsm_tx_secmat_get asserts it of the key it sends with.  *)
(***************************************************************************)
KeysHaveSubnets ==
  \A id \in Of("appkey", dsm) \cup Of("devkey", dsm) :
    <<"subnet", dsm.ram[id].subnet>> \in dsm.allocated
=============================================================================
