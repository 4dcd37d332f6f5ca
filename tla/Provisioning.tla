---------------------------- MODULE Provisioning ----------------------------
(***************************************************************************)
(* The provisioning protocol: a provisioner (prov_provisioner.c) and a     *)
(* provisionee (prov_provisionee.c) over a link that delivers each message *)
(* once (PbAdv).  While an end waits for the acknowledgment of a message   *)
(* it takes none; what a message finds its receiver in the wrong state for *)
(* is acknowledged and ignored.                                            *)
(*                                                                         *)
(* The START of a provisioner says that the provisionee's public key comes *)
(* out of band when its own capabilities, which nrf_mesh_prov_init takes,  *)
(* have a public key type.  The provisionee then keeps its key to itself;  *)
(* but the pubkey_oob of a provisioner is never set, so it sends its key   *)
(* and waits for the other one all the same, and the state that would ask  *)
(* for it, WAIT_OOB_PUB_KEY, is never entered.                             *)
(***************************************************************************)
EXTENDS Integers

CONSTANTS
  METHODS,          \* OOB methods the provisioner's user chooses from
  PUBKEY_TYPES,     \* whether the provisioner's capabilities have a public key type: a set of Booleans
  OFFLOADING        \* the ends that may leave ECDH to their application

ASSUME ProvAssumption == PUBKEY_TYPES \subseteq BOOLEAN

VARIABLE prov

Ends == {"provisioner", "provisionee"}

OtherEnd(n) == IF n = "provisioner" THEN "provisionee" ELSE "provisioner"

None == "NONE"

\* An option of each node says whether it leaves ECDH to its application.
ProvInit ==
  \E offloading \in SUBSET OFFLOADING, type \in PUBKEY_TYPES :
    prov = [state    |-> [n \in Ends |-> "WAIT_LINK"],
            link     |-> [n \in Ends |-> "opening"],
            tx       |-> [n \in Ends |-> None],     \* the message on the way
            received |-> [n \in Ends |-> FALSE],    \* and whether it was
            reason   |-> [n \in Ends |-> None],     \* why this end closes the link
            offloading |-> offloading,
            pubkeyType |-> type,                     \* of the provisioner's capabilities
            pubkeyOob |-> FALSE,                     \* of the provisionee's context
            method   |-> None,
            matches  |-> TRUE,                       \* the authentication data agree
            complete |-> [n \in Ends |-> 0],        \* NRF_MESH_PROV_EVT_COMPLETE
            failed   |-> FALSE]                      \* NRF_MESH_PROV_EVT_FAILED

\* What a context holds: the states of both ends (nrf_mesh_prov_state_t), the messages,
\* and the link.
ProvStates ==
  {"WAIT_LINK", "WAIT_CAPS", "WAIT_CAPS_CONFIRM", "WAIT_START_ACK", "WAIT_PUB_KEY", "WAIT_EXTERNAL_ECDH",
   "WAIT_OOB_INPUT", "WAIT_OOB_STATIC", "WAIT_OOB_STATIC_C_RCVD", "WAIT_INPUT_COMPLETE", "WAIT_CONFIRMATION",
   "WAIT_RANDOM", "WAIT_COMPLETE", "IDLE", "INVITE", "WAIT_START", "WAIT_DATA", "COMPLETE", "FAILED"}

Pdus ==
  {"INVITE", "CAPABILITIES", "START", "PUBLIC_KEY", "INPUT_COMPLETE", "CONFIRMATION", "RANDOM", "DATA",
   "COMPLETE", "FAILED"}

LinkStates == {"opening", "open", "closing", "closed"}

Reasons == {None, "SUCCESS", "ERROR", "TIMEOUT"}

Contexts ==
  [state : [Ends -> ProvStates], link : [Ends -> LinkStates],
   tx : [Ends -> Pdus \cup {None}], received : [Ends -> BOOLEAN],
   reason : [Ends -> Reasons],
   offloading : SUBSET OFFLOADING, pubkeyType : BOOLEAN, pubkeyOob : BOOLEAN, method : METHODS \cup {None}, matches : BOOLEAN,
   complete : [Ends -> {0, 1}], failed : BOOLEAN]

-----------------------------------------------------------------------------
(* What the ends do with the link *)

Enter(p, n, state) == [p EXCEPT !.state[n] = state]

SendPdu(p, n, pdu) == [p EXCEPT !.tx[n] = pdu, !.received[n] = FALSE]

CloseFor(p, n, reason) ==
  IF p.link[n] \in {"opening", "open"} THEN [p EXCEPT !.link[n] = "closing", !.reason[n] = reason] ELSE p

SendFailed(p) ==
  Enter([SendPdu(p, "provisionee", "FAILED") EXCEPT !.failed = TRUE], "provisionee", "FAILED")

SendConfirmation(p) ==
  Enter(SendPdu(p, "provisioner", "CONFIRMATION"), "provisioner", "WAIT_CONFIRMATION")

\* The method is that of the provisionee: its input is the provisioner's output.
RequestAuthentication(p, n) ==
  CASE p.method = "NONE" /\ n = "provisioner" -> SendConfirmation(p)
    [] p.method \in {"NONE", "OUTPUT"} /\ n = "provisionee" -> Enter(p, n, "WAIT_CONFIRMATION")
    [] p.method = "INPUT" /\ n = "provisioner" -> Enter(p, n, "WAIT_INPUT_COMPLETE")
    [] p.method = "STATIC" -> Enter(p, n, "WAIT_OOB_STATIC")
    [] OTHER -> Enter(p, n, "WAIT_OOB_INPUT")

StartAuthentication(p, n) ==
  IF n \in p.offloading THEN Enter(p, n, "WAIT_EXTERNAL_ECDH") ELSE RequestAuthentication(p, n)

CompleteProvisioning(p, n) == [p EXCEPT !.complete[n] = @ + 1]

-----------------------------------------------------------------------------
(* prov_provisioner.c *)

ProvisionerPktIn(p, pdu) ==
  LET s == p.state["provisioner"] IN
  CASE pdu = "CAPABILITIES" /\ s = "WAIT_CAPS" -> Enter(p, "provisioner", "WAIT_CAPS_CONFIRM")
    [] pdu = "PUBLIC_KEY" /\ s = "WAIT_PUB_KEY" -> StartAuthentication(p, "provisioner")
    [] pdu = "INPUT_COMPLETE" /\ s = "WAIT_INPUT_COMPLETE" -> SendConfirmation(p)
    [] pdu = "CONFIRMATION" /\ s = "WAIT_CONFIRMATION" ->
         Enter(SendPdu(p, "provisioner", "RANDOM"), "provisioner", "WAIT_RANDOM")
    [] pdu = "RANDOM" /\ s = "WAIT_RANDOM" ->
         IF p.matches THEN Enter(SendPdu(p, "provisioner", "DATA"), "provisioner", "WAIT_COMPLETE")
         ELSE CloseFor(p, "provisioner", "ERROR")
    [] pdu = "COMPLETE" /\ s = "WAIT_COMPLETE" ->
         CloseFor(CompleteProvisioning(p, "provisioner"), "provisioner", "SUCCESS")
    [] pdu = "FAILED" -> CloseFor([p EXCEPT !.failed = TRUE], "provisioner", "ERROR")
    [] OTHER -> p

ProvisionerAck(p) ==
  IF p.state["provisioner"] = "WAIT_START_ACK"
  THEN Enter(SendPdu(p, "provisioner", "PUBLIC_KEY"), "provisioner", "WAIT_PUB_KEY") ELSE p

ProvisionerOpened(p) == Enter(SendPdu(p, "provisioner", "INVITE"), "provisioner", "WAIT_CAPS")

ProvisionerClosed(p) == Enter(p, "provisioner", "IDLE")

-----------------------------------------------------------------------------
(* prov_provisionee.c *)

\* What START says of the public key is kept.
HandleProvStart(p) ==
  Enter([p EXCEPT !.pubkeyOob = p.pubkeyType], "provisionee", "WAIT_PUB_KEY")

\* The own key is the answer, unless the provisioner is to know it.
HandlePublicKey(p) ==
  IF p.pubkeyOob THEN StartAuthentication(p, "provisionee")
  ELSE SendPdu(p, "provisionee", "PUBLIC_KEY")

\* Mutant: a confirmation that comes before the static data is not kept.
ProvisioneePktInForgets(p, pdu) ==
  LET s == p.state["provisionee"] IN
  CASE pdu = "INVITE" /\ s = "INVITE" -> SendPdu(p, "provisionee", "CAPABILITIES")
    [] pdu = "START" /\ s = "WAIT_START" -> HandleProvStart(p)
    [] pdu = "PUBLIC_KEY" /\ s = "WAIT_PUB_KEY" -> HandlePublicKey(p)
    [] pdu = "CONFIRMATION" /\ s = "WAIT_CONFIRMATION" -> SendPdu(p, "provisionee", "CONFIRMATION")
    [] pdu = "RANDOM" /\ s = "WAIT_RANDOM" ->
         IF p.matches THEN SendPdu(p, "provisionee", "RANDOM") ELSE SendFailed(p)
    [] pdu = "DATA" /\ s = "WAIT_DATA" -> SendPdu(p, "provisionee", "COMPLETE")
    [] OTHER -> p

ProvisioneePktIn(p, pdu) ==
  LET s == p.state["provisionee"] IN
  CASE pdu = "INVITE" /\ s = "INVITE" -> SendPdu(p, "provisionee", "CAPABILITIES")
    [] pdu = "START" /\ s = "WAIT_START" -> HandleProvStart(p)
    [] pdu = "PUBLIC_KEY" /\ s = "WAIT_PUB_KEY" -> HandlePublicKey(p)
    [] pdu = "CONFIRMATION" /\ s = "WAIT_CONFIRMATION" -> SendPdu(p, "provisionee", "CONFIRMATION")
    [] pdu = "CONFIRMATION" /\ s = "WAIT_OOB_STATIC" ->
         Enter(p, "provisionee", "WAIT_OOB_STATIC_C_RCVD")
    [] pdu = "RANDOM" /\ s = "WAIT_RANDOM" ->
         IF p.matches THEN SendPdu(p, "provisionee", "RANDOM") ELSE SendFailed(p)
    [] pdu = "DATA" /\ s = "WAIT_DATA" -> SendPdu(p, "provisionee", "COMPLETE")
    [] OTHER -> p

\* The acknowledgment of what was sent last moves the provisionee on.
ProvisioneeAck(p) ==
  LET s == p.state["provisionee"] IN
  CASE s = "INVITE" -> Enter(p, "provisionee", "WAIT_START")
    [] s = "WAIT_PUB_KEY" -> StartAuthentication(p, "provisionee")
    [] s = "WAIT_OOB_INPUT" -> Enter(p, "provisionee", "WAIT_CONFIRMATION")
    [] s \in {"WAIT_OOB_STATIC_C_RCVD", "WAIT_CONFIRMATION"} -> Enter(p, "provisionee", "WAIT_RANDOM")
    [] s = "WAIT_RANDOM" -> Enter(p, "provisionee", "WAIT_DATA")
    [] s = "WAIT_DATA" -> Enter(CompleteProvisioning(p, "provisionee"), "provisionee", "COMPLETE")
    [] OTHER -> p

ProvisioneeOpened(p) == Enter(p, "provisionee", "INVITE")

\* Mutant: the reason of the other end does not count.
ProvisioneeClosedAnyway(p, reason) ==
  Enter(IF p.state["provisionee"] = "WAIT_DATA"
        THEN CompleteProvisioning(p, "provisionee") ELSE p, "provisionee", "IDLE")

\* The last acknowledgment may be lost: that the link is closed successfully says
\* the same.
ProvisioneeClosed(p, reason) ==
  Enter(IF p.state["provisionee"] = "WAIT_DATA" /\ reason = "SUCCESS"
        THEN CompleteProvisioning(p, "provisionee") ELSE p, "provisionee", "IDLE")

-----------------------------------------------------------------------------
(* The link *)

\* The provisionee opens first, and the provisioner when it is acknowledged.
Opened(n) ==
  /\ prov.link[n] = "opening"
  /\ prov.link[OtherEnd(n)] = IF n = "provisioner" THEN "open" ELSE "opening"
  /\ LET p == [prov EXCEPT !.link[n] = "open"]
     IN  prov' = IF n = "provisioner" THEN ProvisionerOpened(p) ELSE ProvisioneeOpened(p)

\* An end with a message of its own on the way takes no other.
PktIn(n) ==
  LET pdu == prov.tx[OtherEnd(n)]
      p   == [prov EXCEPT !.received[OtherEnd(n)] = TRUE]
  IN  /\ prov.link[n] = "open" /\ prov.link[OtherEnd(n)] = "open"
      /\ pdu # None /\ ~prov.received[OtherEnd(n)] /\ prov.tx[n] = None
      /\ prov' = IF n = "provisioner" THEN ProvisionerPktIn(p, pdu) ELSE ProvisioneePktIn(p, pdu)

\* An acknowledgment sent before its sender closed the link may still arrive.
Ack(n) ==
  LET p == [prov EXCEPT !.tx[n] = None]
  IN  /\ prov.link[n] = "open" /\ prov.tx[n] # None /\ prov.received[n]
      /\ prov' = IF n = "provisioner" THEN ProvisionerAck(p) ELSE ProvisioneeAck(p)

OnLinkClosed(p, n, reason) ==
  LET closed == [p EXCEPT !.link[n] = "closed", !.tx[n] = None]
  IN  IF n = "provisioner" THEN ProvisionerClosed(closed) ELSE ProvisioneeClosed(closed, reason)

\* An end that closes the link has sent what says so.
Closed(n) ==
  /\ prov.link[n] = "closing"
  /\ prov' = OnLinkClosed(prov, n, prov.reason[n])

\* The other end hears of it, unless all packets that say so are lost.
CloseReceived(n) ==
  /\ prov.link[n] = "open" /\ prov.link[OtherEnd(n)] \in {"closing", "closed"}
  /\ prov.reason[OtherEnd(n)] # None
  /\ prov' = OnLinkClosed(prov, n, prov.reason[OtherEnd(n)])

\* The link timer of an end, or the timeout of its message.  The provisionee has
\* none until its link opens.
Timeout(n) ==
  /\ prov.link[n] = "open" \/ (n = "provisioner" /\ prov.link[n] = "opening")
  /\ prov' = CloseFor(prov, n, "TIMEOUT")

-----------------------------------------------------------------------------
(* The calls of the application *)

OobUse(method) ==
  /\ prov.link["provisioner"] = "open" /\ prov.tx["provisioner"] = None
  /\ prov.state["provisioner"] = "WAIT_CAPS_CONFIRM"
  /\ prov' = Enter(SendPdu([prov EXCEPT !.method = method], "provisioner", "START"),
                   "provisioner", "WAIT_START_ACK")

\* A call that finds a message on the way fails, and is repeated.
ProvisionerAuthData(right) ==
  /\ prov.link["provisioner"] = "open" /\ prov.tx["provisioner"] = None
  /\ prov.state["provisioner"] \in {"WAIT_OOB_INPUT", "WAIT_OOB_STATIC"}
  /\ prov' = SendConfirmation([prov EXCEPT !.matches = @ /\ right])

ProvisioneeAuthData(right) ==
  LET p == [prov EXCEPT !.matches = @ /\ right]
      s == prov.state["provisionee"]
  IN  /\ prov.link["provisionee"] = "open" /\ prov.tx["provisionee"] = None
      /\ \/ s = "WAIT_OOB_INPUT" /\ prov' = SendPdu(p, "provisionee", "INPUT_COMPLETE")
         \/ s = "WAIT_OOB_STATIC_C_RCVD" /\ prov' = SendPdu(p, "provisionee", "CONFIRMATION")
         \/ s = "WAIT_OOB_STATIC" /\ prov' = Enter(p, "provisionee", "WAIT_CONFIRMATION")

SharedSecret(n) ==
  /\ prov.state[n] = "WAIT_EXTERNAL_ECDH" /\ prov.link[n] = "open" /\ prov.tx[n] = None
  /\ prov' = RequestAuthentication(prov, n)

OobChosen == \E method \in METHODS : OobUse(method)

AuthData ==
  \E right \in BOOLEAN : ProvisionerAuthData(right) \/ ProvisioneeAuthData(right)

\* An end whose peer is gone.
TimeoutAfterPeer(n) == prov.link[OtherEnd(n)] = "closed" /\ Timeout(n)

ProvNext ==
  \/ \E n \in Ends : Opened(n) \/ PktIn(n) \/ Ack(n)
  \/ \E n \in Ends : Closed(n) \/ CloseReceived(n) \/ Timeout(n)
  \/ OobChosen
  \/ AuthData
  \/ \E n \in Ends : SharedSecret(n)

ProvSpec == ProvInit /\ [][ProvNext]_prov

\* The link delivers or is closed, applications and users answer, and an end that lost the
\* other times out; an end that waits in vain is not saved by its timer.
ProvFairSpec ==
  /\ ProvSpec
  /\ \A n \in Ends :
       /\ WF_prov(Opened(n) \/ PktIn(n)) /\ WF_prov(Ack(n)) /\ WF_prov(SharedSecret(n))
       /\ WF_prov(Closed(n) \/ CloseReceived(n))
       /\ WF_prov(TimeoutAfterPeer(n))
  /\ WF_prov(OobChosen)
  /\ WF_prov(AuthData)

-----------------------------------------------------------------------------
(***************************************************************************)
(* A node that is provisioned is known: the provisionee completes only     *)
(* with a provisioner that completed, both at most once, and neither with  *)
(* authentication data that do not agree.                                  *)
(***************************************************************************)
CompletesTogether ==
  /\ prov.complete["provisionee"] <= prov.complete["provisioner"]
  /\ prov.complete["provisioner"] <= IF prov.matches THEN 1 ELSE 0

Over ==
  prov.link["provisioner"] = "closed" /\ prov.link["provisionee"] \in {"closed", "opening"}

(***************************************************************************)
(* Provisioning that has begun ends without a timeout, in a link that is   *)
(* closed: no message finds its receiver in a state that ignores it and    *)
(* leaves its sender waiting for the answer.  This is so of a provisioner  *)
(* without a public key type.  One with such a type waits in WAIT_PUB_KEY  *)
(* for a key that the provisionee does not send, until a timer ends it.    *)
(***************************************************************************)
ProvisioningEnds ==
  (prov.link["provisionee"] # "opening" /\ ~prov.pubkeyType) ~> Over
=============================================================================
