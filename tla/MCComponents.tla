---------------------------- MODULE MCComponents ----------------------------
(***************************************************************************)
(* The components that are checked alone, each on an instance small enough *)
(* for one run to check several of them: a behaviour is one of the unit    *)
(* that it begins with.  The components that are also proved about are     *)
(* extended, and the others instantiated.  A unit that does not move stays *)
(* in its initial state, where the properties of all units hold.           *)
(***************************************************************************)
EXTENDS ReplayProtection, TimerScheduler, Advertiser, AccessReliable, AccessPublish, PbAdv,
        Provisioning, Heartbeat, PacketBuffer

CONSTANTS
  UNITS,           \* the units a run checks
  RETRIES_APART,   \* the two ends of a link try again at different times
  CLIENT_CHANGES,  \* bound: messages and changes of the unit clients
  FLASH_WORDS      \* the flash queue of the node, in words

VARIABLES
  unit,
  keys, store,              \* two instances of Dsm
  clients, settings,        \* of ConfigServer
  ram, flash, spent         \* of NetState

\* The messages of PB-ADV, by who sends them.
MCExchange == <<"provisioner", "provisionee">>

MCTurns == Append(MCExchange, "provisioner")

\* The keys, with room for everything and a power failure.
Keys == INSTANCE Dsm WITH dsm <- keys,
  SUBNETS <- {0}, APPKEYS <- {0}, DEVKEYS <- {0}, ADDRESSES <- {}, GROUPS <- {},
  ROOM <- 9, CHANGES <- 4, POWER_FAILURES <- 1

\* Entries that do not fit into the queue.
Store == INSTANCE Dsm WITH dsm <- store,
  SUBNETS <- {0}, APPKEYS <- {0}, DEVKEYS <- {}, ADDRESSES <- {0}, GROUPS <- {1},
  ROOM <- 2, CHANGES <- 3, POWER_FAILURES <- 0

\* Clients that change what they set, with little room in the queue.
MCMessages == {"publication set", "subscription add", "app bind", "app unbind"}

MCDeletions == {"subscription delete", "subscription delete all", "subscription overwrite"}

Clients == INSTANCE ConfigServer WITH config <- clients,
  MODELS <- {1, 2}, LISTS <- {1, 2}, PERIODIC <- {1, 2}, HANDLES <- {1, 2}, VIRTUAL <- {2},
  GROUPS <- {11}, LABELS <- {12}, APPKEYS <- {1}, STEPS <- {1},
  MESSAGES <- MCMessages \cup MCDeletions \cup {"other saves"}, STRAY <- FALSE,
  ROOM <- 1, CHANGES <- CLIENT_CHANGES, POWER_FAILURES <- 0

\* Clients that only add, with room for everything and a power failure.
Settings == INSTANCE ConfigServer WITH config <- settings,
  MODELS <- {1, 2}, LISTS <- {2}, PERIODIC <- {1}, HANDLES <- {1, 2}, VIRTUAL <- {2},
  GROUPS <- {11}, LABELS <- {12}, APPKEYS <- {1}, STEPS <- {1},
  MESSAGES <- MCMessages, STRAY <- FALSE,
  ROOM <- 9, CHANGES <- 3, POWER_FAILURES <- 1

\* One holder of the IV index at a time.
MCIvIndexes == 0..1

Net == INSTANCE MCNetState WITH
  SEQNUM_MAX <- 1, BLOCK_SIZE <- 2, BLOCK_THRESHOLD <- 1, START_THRESHOLD <- 1, END_THRESHOLD <- 1,
  IV_UPDATE_TIMEOUT <- 1, IN_PROGRESS_MAX_TIME <- 2, IV_RECOVERY_TIMEOUT <- 1, IV_RECOVERY_LIMIT <- 2,
  POOL_SIZE <- FLASH_WORDS, MaxIv <- 1, MaxLocks <- 1, BeaconIvIndexes <- MCIvIndexes

MCInit ==
  /\ unit \in UNITS
  /\ ReplayInit /\ SchedulerInit /\ AdvertiserInit /\ ReliableInit /\ PublishInit /\ BearerInit
  /\ HeartbeatInit /\ BufferInit
  /\ ProvInit /\ (unit # "protocol" => prov.offloading = {} /\ ~prov.pubkeyType)
  /\ Keys!Init /\ Store!Init /\ Clients!Init /\ Settings!Init /\ Net!Init

vars == <<unit, replay, scheduler, advertiser, reliable, publish, keys, store, bearer,
          prov, heartbeat, clients, settings, buf, live, ram, flash, spent>>

Stays(u, v) == IF unit = u THEN TRUE ELSE UNCHANGED v

\* The unit u moves, and nothing else.
In(u) ==
  /\ unit = u /\ UNCHANGED unit
  /\ Stays("replay", replay) /\ Stays("scheduler", scheduler)
  /\ Stays("advertiser", advertiser) /\ Stays("reliable", reliable)
  /\ Stays("publish", publish) /\ Stays("keys", keys) /\ Stays("store", store)
  /\ Stays("link", bearer) /\ Stays("protocol", prov)
  /\ Stays("heartbeat", heartbeat) /\ Stays("buffer", <<buf, live>>)
  /\ Stays("clients", clients) /\ Stays("settings", settings)
  /\ Stays(IF unit = "node" THEN "node" ELSE "net", <<ram, flash, spent>>)

MCNext ==
  \/ In("replay") /\ ReplayNext
  \/ In("scheduler") /\ SchedulerNext
  \/ In("advertiser") /\ AdvertiserNext
  \/ In("reliable") /\ ReliableNext
  \/ In("publish") /\ PublishNext
  \/ In("keys") /\ Keys!Next
  \/ In("store") /\ Store!Next
  \/ In("link") /\ BearerNext /\ (RETRIES_APART => RetriesApart)
  \/ In("protocol") /\ ProvNext
  \/ In("heartbeat") /\ HeartbeatNext
  \/ In("clients") /\ Clients!Next
  \/ In("settings") /\ Settings!Next
  \/ In("buffer") /\ BufferNext
  \/ In("net") /\ Net!Operate /\ Net!Bounded
  \/ In("node") /\ Net!MCNext /\ ram'.lock_count = 0

(***************************************************************************)
(* The fairness of each unit is that of its module.  Only one unit moves   *)
(* in a behaviour, so that fairness of a disjunction of actions of several *)
(* units is fairness of each of them.                                      *)
(***************************************************************************)
TimePasses ==
  \/ In("reliable") /\ ReliableTick
  \/ In("publish") /\ PublishTick
  \/ In("heartbeat") /\ Tick
  \/ In("net") /\ Net!Minute /\ Net!Bounded

TimersAreCalled ==
  \/ In("advertiser") /\ TimeoutEvent
  \/ In("reliable") /\ ReliableTimerCb
  \/ In("publish") /\ PublishTimerTick
  \/ In("heartbeat") /\ PublicationTimerCb

OperationsEnd ==
  \/ In("advertiser") /\ BroadcastComplete
  \/ In("store") /\ Store!FlashDone
  \/ In("clients") /\ Clients!FlashDone
  \/ In("net") /\ Net!FlashDone /\ Net!Bounded

OthersAct ==
  \/ In("advertiser") /\ (SetupNextTimeout \/ PacketSent)
  \/ In("heartbeat") /\ SubscriptionTimerCb
  \/ In("store") /\ Store!FlashConfigLoad
  \/ In("net") /\ Net!FlashWrite
  \/ In("protocol") /\ OobChosen

\* Whoever holds the IV index lets go of it: a transport session ends by its
\* last acknowledgment, its timeout or a cancel.  Applications answer.
ApplicationsAct ==
  \/ In("net") /\ Net!UnlockIvIndex /\ Net!Bounded
  \/ In("protocol") /\ AuthData

TimeAndAgain ==
  \/ In("advertiser") /\ TxCompleteEvent
  \/ In("heartbeat") /\ Publishes

\* The two ends of a link.
LinkFairness(n) ==
  /\ WF_vars(\/ In("link") /\ TxRetry(n)
             \/ In("protocol") /\ TimeoutAfterPeer(n))
  /\ WF_vars(\/ In("link") /\ AsyncProcess(n)
             \/ In("protocol") /\ Ack(n))
  /\ WF_vars(\/ In("link") /\ Tx(n)
             \/ In("protocol") /\ (Closed(n) \/ CloseReceived(n)))
  /\ WF_vars(\/ In("link") /\ (Received(n) \/ Lost(n))
             \/ In("protocol") /\ (Opened(n) \/ PktIn(n)))
  /\ SF_vars(In("link") /\ Heeded(n))

MCSpec == MCInit /\ [][MCNext]_vars

MCFairSpec ==
  /\ MCSpec
  /\ WF_vars(TimePasses) /\ WF_vars(TimersAreCalled) /\ WF_vars(OperationsEnd)
  /\ WF_vars(OthersAct) /\ WF_vars(ApplicationsAct) /\ SF_vars(TimeAndAgain)
  /\ LinkFairness("provisioner") /\ LinkFairness("provisionee")

-----------------------------------------------------------------------------
(* The properties of the units that are instances; each is stated, with   *)
(* its reasons, in the module of its unit, as those of the others are.     *)

\* A model with a period is asked to publish again and again (AccessPublish).
PublicationsGoOn == \A m \in PUBLISHERS : []<>(unit = "publish" => AskedOrOff(m))

\* Application and device keys have their subnets (Dsm).
KeysHaveSubnets == Keys!KeysHaveSubnets

\* The flash ends with what the RAM holds (Dsm).
StoredInTheEnd == <>[](unit = "store" => Store!Stored)

\* The addresses that models use stay with their handles (ConfigServer).
AddressesKept == Clients!AddressesKept /\ Settings!AddressesKept

\* What clients set is stored in the end (ConfigServer).
ConfigStored == <>[](unit = "clients" => Clients!Stored)

\* What the node keeps has its type, whatever fails (NetState).
TypeOK == Net!TypeOK

\* No IV update stays in progress for ever (NetState).
UpdatesEnd == []<>(unit = "net" => Net!UpdateOver)

\* A node that used up its block of numbers gets another one (NetState).
BlocksArrive == []<>(unit = "net" => Net!Supplied)
=============================================================================
