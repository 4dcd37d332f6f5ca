---------------------------- MODULE ConfigServer ----------------------------
(***************************************************************************)
(* The publications, subscriptions and key bindings of models: the         *)
(* handlers of the configuration server (config_server.c), the state of    *)
(* the access layer (access.c) that they change, and the addresses of the  *)
(* device state manager (device_state_manager.c) that it refers to by      *)
(* their handles.  Each of the two layers counts on the other for what it  *)
(* stores: an address is given up with its last user, and at boot each     *)
(* user adds to the count of its addresses again.                          *)
(*                                                                         *)
(* Both layers write entries through the one queue of the flash manager;   *)
(* what does not fit is written when a packet of the queue is freed.       *)
(***************************************************************************)
EXTENDS Integers, FiniteSets, FiniteSetsExt, SequencesExt

CONSTANTS
  MODELS,           \* the models of the node, numbered
  LISTS,            \* those with a subscription list
  PERIODIC,         \* those that publish periodically
  HANDLES,          \* handles of addresses, numbered
  VIRTUAL,          \* those for virtual addresses
  GROUPS, LABELS,   \* group addresses, and the labels of virtual ones
  APPKEYS,          \* application keys, numbered
  STEPS,            \* the publication periods that clients ask for
  MESSAGES,         \* the messages that clients send
  STRAY,            \* whether they delete subscriptions that a model has not
  ROOM,             \* packets the queue of the flash manager has room for
  CHANGES,          \* bound: messages, and calls of other users of the queue
  POWER_FAILURES    \* bound: power failures

VARIABLE config

NONE == 0

Addresses == GROUPS \cup LABELS

NoPublication == [address |-> NONE, appkey |-> NONE, period |-> 0, appkeys |-> {}]

\* What is stored of a node that has been provisioned and not been configured.
Unconfigured ==
  [address |-> [h \in HANDLES |-> NONE],
   list    |-> [m \in LISTS |-> {}],
   model   |-> [m \in MODELS |-> NoPublication]]

\* It has stored its models once.
Init ==
  config = [ram |-> Unconfigured, flash |-> Unconfigured,
            published |-> [h \in HANDLES |-> 0], subscribed |-> [h \in HANDLES |-> 0],
            unsaved |-> {}, queue |-> <<>>, listeners |-> <<>>,
            changes |-> 0, failures |-> 0, halted |-> FALSE]

Halted(c) == [c EXCEPT !.halted = TRUE]

-----------------------------------------------------------------------------
(* Entries and the queue of the flash manager *)

HasRoom(c) == Len(c.queue) < ROOM

\* flash_manager_mem_listener_register
Listen(c, listener) ==
  [c EXCEPT !.listeners = IF Contains(@, listener) THEN @ ELSE Append(@, listener)]

Outdated(c, entry) == [c EXCEPT !.unsaved = @ \cup {entry}]

\* An entry with what the RAM holds; an address that is NONE is invalidated.
Queued(c, entry) ==
  [c EXCEPT !.queue = Append(@, <<entry, c.ram[entry[1]][entry[2]]>>)]

\* The order of their types, and of the handles of a type.
InOrder(entries) ==
  LET type == [address |-> 1, list |-> 2, model |-> 3]
  IN  SetToSortSeq(entries, LAMBDA a, b : \/ type[a[1]] < type[b[1]]
                                          \/ a[1] = b[1] /\ a[2] < b[2])

\* As many as fit; the rest waits for room.
WriteAll(c, entries, listener) ==
  LET todo    == InOrder(entries)
      fit     == Min({Len(todo), ROOM - Len(c.queue)})
      written == FoldLeft(Queued, c, SubSeq(todo, 1, fit))
      saved   == [written EXCEPT !.unsaved = @ \ ToSet(SubSeq(todo, 1, fit))]
  IN  IF fit < Len(todo) THEN Listen(saved, listener) ELSE saved

FlashUpdateAll(c) ==
  WriteAll(c, {entry \in c.unsaved : entry[1] = "address"}, "update_all")

\* Mutant: nobody waits for room.
FlashConfigStoreOnce(c) ==
  [WriteAll(c, {entry \in c.unsaved : entry[1] # "address"}, "config_store")
     EXCEPT !.listeners = c.listeners]

FlashConfigStore(c) ==
  WriteAll(c, {entry \in c.unsaved : entry[1] # "address"}, "config_store")

\* flash_save and flash_invalidate of an address
AddressFlashed(c, h) ==
  IF HasRoom(c) THEN Queued(c, <<"address", h>>)
  ELSE Listen(Outdated(c, <<"address", h>>), "update_all")

\* free_packet_buffer
Freed(c) ==
  LET Notify(done, listener) ==
        IF listener = "update_all" THEN FlashUpdateAll(done) ELSE FlashConfigStore(done)
  IN  FoldLeft(Notify, [c EXCEPT !.queue = Tail(@), !.listeners = <<>>], c.listeners)

\* An entry is written or, for an address, invalidated, which has to find it.
FlashDone ==
  LET type  == Head(config.queue)[1][1]
      n     == Head(config.queue)[1][2]
      value == Head(config.queue)[2]
  IN  /\ config.queue # <<>> /\ ~config.halted
      /\ config' =
           CASE type = "other" -> Freed(config)
             [] type = "address" /\ value = NONE /\ config.flash.address[n] = NONE ->
                  Halted(config)
             [] OTHER -> Freed([config EXCEPT !.flash[type][n] = value])

-----------------------------------------------------------------------------
(* Addresses of the device state manager *)

\* The handle of an address, or the first that is free for it, or NONE.
HandleOf(c, address) ==
  LET known == {h \in HANDLES : c.ram.address[h] = address}
      free  == {h \in HANDLES : c.ram.address[h] = NONE /\ (h \in VIRTUAL <=> address \in LABELS)}
  IN  CASE known # {} -> Min(known)
        [] known = {} /\ free # {} -> Min(free)
        [] OTHER -> NONE

\* add_address and add_address_virtual; the address gets the handle h.
AddressAdd(c, address, h, role) ==
  LET set == Outdated([c EXCEPT !.ram.address[h] = address], <<"address", h>>)
      new == IF c.ram.address[h] = address THEN c ELSE AddressFlashed(set, h)
  IN  [new EXCEPT ![role][h] = @ + 1]

AddressDeleteIfUnused(c, h) ==
  IF c.published[h] = 0 /\ c.subscribed[h] = 0
  THEN AddressFlashed([c EXCEPT !.ram.address[h] = NONE], h)
  ELSE c

\* dsm_address_subscription_remove, which its callers assert to succeed
SubscriptionRemove(c, h) ==
  IF c.ram.address[h] = NONE \/ c.subscribed[h] = 0 THEN Halted(c)
  ELSE AddressDeleteIfUnused([c EXCEPT !.subscribed[h] = @ - 1], h)

-----------------------------------------------------------------------------
(* The state of models in the access layer *)

\* A setter that finds its value set does not make the model outdated.
ModelSet(c, m, field, value) ==
  IF c.ram.model[m][field] = value THEN c
  ELSE Outdated([c EXCEPT !.ram.model[m][field] = value], <<"model", m>>)

ModelSubscriptionAdd(c, m, h) ==
  IF h \in c.ram.list[m] THEN c
  ELSE Outdated([c EXCEPT !.ram.list[m] = @ \cup {h}], <<"list", m>>)

ModelSubscriptionRemove(c, m, h) ==
  IF h \notin c.ram.list[m] THEN c
  ELSE Outdated([c EXCEPT !.ram.list[m] = @ \ {h}], <<"list", m>>)

-----------------------------------------------------------------------------
(* The handlers of the configuration server.  A message that is refused    *)
(* without a change is no step.                                            *)

Receives(message) ==
  message \in MESSAGES /\ ~config.halted /\ config.changes < CHANGES

Changed(c) == config' = [c EXCEPT !.changes = @ + 1]

\* A period is set to 0 before it is set.
PublicationSet(m, address, appkey, step) ==
  LET h        == HandleOf(config, address)
      added    == ModelSet(AddressAdd(config, address, h, "published"), m, "address", h)
      paused   == IF step = 0 THEN added ELSE ModelSet(added, m, "period", 0)
      periodic == IF step = 0 THEN added ELSE ModelSet(paused, m, "period", step)
  IN  /\ Receives("publication set")
      /\ h # NONE
      /\ Changed(IF step # 0 /\ m \notin PERIODIC THEN added
                 ELSE FlashConfigStore(ModelSet(periodic, m, "appkey", appkey)))

SubscriptionAdd(m, address) ==
  LET h     == HandleOf(config, address)
      added == AddressAdd(config, address, h, "subscribed")
  IN  /\ Receives("subscription add")
      /\ h # NONE
      /\ Changed(IF m \in LISTS THEN FlashConfigStore(ModelSubscriptionAdd(added, m, h))
                 ELSE SubscriptionRemove(added, h))

\* Mutant: the address keeps its count.
SubscriptionRemovedUncounted(c, m, h) ==
  AddressDeleteIfUnused([ModelSubscriptionRemove(c, m, h) EXCEPT !.subscribed[h] = 0], h)

\* The subscription goes in the access layer, then in the device state manager.
SubscriptionRemoved(c, m, h) == SubscriptionRemove(ModelSubscriptionRemove(c, m, h), h)

SubscriptionDelete(m, h) ==
  /\ Receives("subscription delete")
  /\ m \in LISTS /\ config.ram.address[h] # NONE
  /\ STRAY \/ h \in config.ram.list[m]
  /\ Changed(FlashConfigStore(SubscriptionRemoved(config, m, h)))

\* The list of addresses has place for as many as there are subscription lists.
AllSubscriptionsDeleted(m) ==
  LET Delete(c, h) == SubscriptionRemoved(c, m, h)
      list         == config.ram.list[m]
  IN  IF Cardinality(list) > Cardinality(LISTS) THEN Halted(config)
      ELSE FoldLeft(Delete, config, SetToSortSeq(list, <))

SubscriptionDeleteAll(m) ==
  /\ Receives("subscription delete all")
  /\ m \in LISTS
  /\ LET deleted == AllSubscriptionsDeleted(m) IN
     Changed(IF deleted.halted THEN deleted ELSE FlashConfigStore(deleted))

\* All are deleted before it shows whether there is a handle for the address;
\* if there is none, only the handler of virtual addresses stores the rest.
SubscriptionOverwrite(m, address) ==
  LET deleted == AllSubscriptionsDeleted(m)
      h       == HandleOf(deleted, address)
  IN  /\ Receives("subscription overwrite")
      /\ m \in LISTS
      /\ Changed(CASE deleted.halted -> deleted
                   [] ~deleted.halted /\ h # NONE ->
                        FlashConfigStore(ModelSubscriptionAdd(
                          AddressAdd(deleted, address, h, "subscribed"), m, h))
                   [] ~deleted.halted /\ h = NONE /\ address \in LABELS ->
                        FlashConfigStore(deleted)
                   [] OTHER -> deleted)

AppBind(m, appkey) ==
  /\ Receives("app bind")
  /\ Changed(FlashConfigStore(
       ModelSet(config, m, "appkeys", config.ram.model[m].appkeys \cup {appkey})))

AppUnbind(m, appkey) ==
  /\ Receives("app unbind")
  /\ Changed(FlashConfigStore(
       ModelSet(config, m, "appkeys", config.ram.model[m].appkeys \ {appkey})))

\* Another user of the flash manager takes room in its queue.
OtherSaves ==
  /\ Receives("other saves") /\ HasRoom(config)
  /\ Changed([config EXCEPT !.queue = Append(@, <<<<"other", 0>>, NONE>>)])

-----------------------------------------------------------------------------
(* Boot *)

Publishers(state, h) == {m \in MODELS : state.model[m].address = h}

Subscribers(state, h) == {m \in LISTS : h \in state.list[m]}

\* Each model adds its addresses, and asserts that they are there.  The models
\* are outdated since they were added, the addresses since they were set.
PowerFailure ==
  LET state == config.flash IN
  /\ config.failures < POWER_FAILURES
  /\ config' =
       [config EXCEPT
          !.ram = state, !.queue = <<>>, !.listeners = <<>>, !.failures = @ + 1,
          !.published = [h \in HANDLES |-> Cardinality(Publishers(state, h))],
          !.subscribed = [h \in HANDLES |-> Cardinality(Subscribers(state, h))],
          !.unsaved = ({"model"} \X MODELS)
                        \cup ({"address"} \X {h \in HANDLES : state.address[h] # NONE}),
          !.halted = \E h \in HANDLES :
                       /\ state.address[h] = NONE
                       /\ Publishers(state, h) \cup Subscribers(state, h) # {}]

Next ==
  \/ \E m \in MODELS, address \in Addresses, appkey \in APPKEYS, step \in STEPS :
       PublicationSet(m, address, appkey, step)
  \/ \E m \in MODELS, address \in Addresses : SubscriptionAdd(m, address)
  \/ \E m \in MODELS, h \in HANDLES : SubscriptionDelete(m, h)
  \/ \E m \in MODELS : SubscriptionDeleteAll(m)
  \/ \E m \in MODELS, address \in Addresses : SubscriptionOverwrite(m, address)
  \/ \E m \in MODELS, appkey \in APPKEYS : AppBind(m, appkey)
  \/ \E m \in MODELS, appkey \in APPKEYS : AppUnbind(m, appkey)
  \/ OtherSaves
  \/ FlashDone
  \/ PowerFailure

Spec == Init /\ [][Next]_config

\* The flash manager works on its queue.
FairSpec == Spec /\ WF_config(FlashDone)

-----------------------------------------------------------------------------
(***************************************************************************)
(* An address that a model publishes or subscribes to has its handle, and  *)
(* at least as many users are counted, after every boot too: the handle is *)
(* not given to another address, and restore_addresses_for_model asserts   *)
(* that it finds it (access.c:705, 715).                                   *)
(***************************************************************************)
AddressesKept ==
  \A h \in HANDLES :
    LET publishers  == Publishers(config.ram, h)
        subscribers == Subscribers(config.ram, h)
    IN  /\ publishers \cup subscribers # {} => config.ram.address[h] # NONE
        /\ Cardinality(publishers) <= config.published[h]
        /\ Cardinality(subscribers) <= config.subscribed[h]

Stored == config.halted \/ config.flash = config.ram

(***************************************************************************)
(* Once the messages are over, the flash holds what the RAM holds, however *)
(* often the queue was full, in both layers.                               *)
(***************************************************************************)
ConfigStored == <>[]Stored
=============================================================================
