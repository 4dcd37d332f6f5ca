------------------------- MODULE ProvisioningProofs -------------------------
(***************************************************************************)
(* That provisioning completes at both ends or at the provisioner alone,   *)
(* for every choice of OOB methods and of who computes the shared secret:  *)
(* CompletesTogether.                                                      *)
(*                                                                         *)
(* The invariant Joint relates the two ends.  A provisioner that waits for *)
(* the last message has checked the authentication data, and a provisionee *)
(* that has sent its random number takes no more of them; the last message *)
(* is sent to a provisioner that waits for it, and what acknowledges it,   *)
(* or closes the link with success, comes from one that completed.  Each   *)
(* handler is described by what it makes of its end (Turned), and most of  *)
(* them are of no concern to the invariant (ProvisionerGoesOn and          *)
(* ProvisioneeGoesOn).                                                     *)
(***************************************************************************)
EXTENDS Provisioning, TLAPS

\* The states of a provisionee whose authentication data are all there.
Authenticated == {"WAIT_RANDOM", "WAIT_DATA", "COMPLETE", "IDLE", "FAILED"}

EndSound(p, n) ==
  /\ p.link[n] = "opening" => p.state[n] = "WAIT_LINK"
  /\ p.link[n] = "closed" <=> p.state[n] = "IDLE"
  /\ p.link[n] \in {"opening", "closed"} => p.tx[n] = None

ProvisionerSound(p) ==
  /\ p.tx["provisioner"] = "DATA" => p.state["provisioner"] = "WAIT_COMPLETE"
  /\ p.complete["provisioner"] = 1 => p.link["provisioner"] \in {"closing", "closed"}
  /\ p.reason["provisioner"] = "SUCCESS" => p.complete["provisioner"] = 1

ProvisioneeSound(p) ==
  /\ p.tx["provisionee"] = "COMPLETE" => p.state["provisionee"] = "WAIT_DATA"
  /\ p.state["provisionee"] = "WAIT_DATA" => p.tx["provisionee"] \in {None, "COMPLETE"}
  /\ p.tx["provisionee"] = "RANDOM" => p.state["provisionee"] = "WAIT_RANDOM"
  /\ p.complete["provisionee"] = 1 => p.state["provisionee"] \in {"COMPLETE", "IDLE"}
  /\ p.reason["provisionee"] # "SUCCESS"

Agreed(p) ==
  /\ p.state["provisioner"] = "WAIT_COMPLETE" \/ p.complete["provisioner"] = 1
       => p.matches = TRUE /\ p.state["provisionee"] \in Authenticated
  /\ p.tx["provisionee"] = "COMPLETE" => p.state["provisioner"] \in {"WAIT_COMPLETE", "IDLE"}
  /\ p.tx["provisionee"] = "COMPLETE" /\ p.received["provisionee"] = TRUE => p.complete["provisioner"] = 1
  /\ p.complete["provisionee"] = 1 => p.complete["provisioner"] = 1

Joint(p) ==
  /\ EndSound(p, "provisioner") /\ EndSound(p, "provisionee")
  /\ ProvisionerSound(p) /\ ProvisioneeSound(p) /\ Agreed(p)

\* The end n is as it was, but for what became of its message.
Untouched(p, q, n) ==
  /\ q.state[n] = p.state[n] /\ q.link[n] = p.link[n] /\ q.tx[n] = p.tx[n]
  /\ q.reason[n] = p.reason[n] /\ q.complete[n] = p.complete[n]

\* What becomes of the end n, and of nothing else.
Turned(p, q, n, state, link, tx, reason, complete) ==
  /\ q \in Contexts
  /\ q.state[n] = state /\ q.link[n] = link /\ q.tx[n] = tx
  /\ q.reason[n] = reason /\ q.complete[n] = complete
  /\ Untouched(p, q, OtherEnd(n))
  /\ q.matches = p.matches /\ q.received[OtherEnd(n)] = p.received[OtherEnd(n)]

-----------------------------------------------------------------------------
(* What the operators do to an end *)

\* Enter sets the state of an end.
LEMMA Entering ==
  ASSUME NEW p \in Contexts, NEW n \in Ends, NEW s \in ProvStates
  PROVE  /\ Turned(p, Enter(p, n, s), n, s, p.link[n], p.tx[n], p.reason[n], p.complete[n])
         /\ Enter(p, n, s).received = p.received
BY DEF Contexts, Enter, Turned, Untouched, OtherEnd, Ends

\* SendPdu puts a message on its way.
LEMMA Sending ==
  ASSUME NEW p \in Contexts, NEW n \in Ends, NEW pdu \in Pdus
  PROVE  /\ Turned(p, SendPdu(p, n, pdu), n, p.state[n], p.link[n], pdu, p.reason[n], p.complete[n])
         /\ SendPdu(p, n, pdu).received[n] = FALSE
BY DEF Contexts, SendPdu, Turned, Untouched, OtherEnd, Ends

\* A message and a new state together, as most answers are.
LEMMA Answering ==
  ASSUME NEW p \in Contexts, NEW n \in Ends, NEW pdu \in Pdus, NEW s \in ProvStates
  PROVE  /\ Turned(p, Enter(SendPdu(p, n, pdu), n, s), n, s, p.link[n], pdu, p.reason[n], p.complete[n])
         /\ Enter(SendPdu(p, n, pdu), n, s).received[n] = FALSE
<1> DEFINE r == SendPdu(p, n, pdu)
           q == Enter(r, n, s)
<1>1. /\ Turned(p, r, n, p.state[n], p.link[n], pdu, p.reason[n], p.complete[n])
      /\ r.received[n] = FALSE
  BY Sending
<1> HIDE DEF r
<1>2. /\ Turned(r, q, n, s, r.link[n], r.tx[n], r.reason[n], r.complete[n])
      /\ q.received = r.received
  BY <1>1, Entering DEF Turned
<1> HIDE DEF q
<1>3. /\ Turned(p, q, n, s, p.link[n], pdu, p.reason[n], p.complete[n])
      /\ q.received[n] = FALSE
  BY <1>1, <1>2 DEF Turned, Untouched
<1> QED BY <1>3 DEF q, r

\* CloseFor closes a link that is not closed yet.
LEMMA Closing ==
  ASSUME NEW p \in Contexts, NEW n \in Ends, NEW reason \in Reasons, p.link[n] \in {"opening", "open"}
  PROVE  /\ Turned(p, CloseFor(p, n, reason), n, p.state[n], "closing", p.tx[n], reason, p.complete[n])
         /\ CloseFor(p, n, reason).received = p.received
<1> DEFINE q == [p EXCEPT !.link[n] = "closing", !.reason[n] = reason]
<1>1. q = CloseFor(p, n, reason) BY DEF CloseFor
<1>2. "closing" \in LinkStates BY DEF LinkStates
<1>3. q \in Contexts BY <1>2 DEF Contexts
<1>4. Turned(p, q, n, p.state[n], "closing", p.tx[n], reason, p.complete[n]) /\ q.received = p.received
  BY <1>3 DEF Contexts, Turned, Untouched, OtherEnd, Ends
<1> QED BY <1>1, <1>4

\* CompleteProvisioning counts.
LEMMA Completing ==
  ASSUME NEW p \in Contexts, NEW n \in Ends, p.complete[n] # 1
  PROVE  /\ Turned(p, CompleteProvisioning(p, n), n, p.state[n], p.link[n], p.tx[n], p.reason[n], 1)
         /\ CompleteProvisioning(p, n).received = p.received
<1> DEFINE q == [p EXCEPT !.complete[n] = 1]
<1>1. p.complete[n] = 0 BY DEF Contexts
<1>2. CompleteProvisioning(p, n) = q BY <1>1 DEF CompleteProvisioning, Contexts
<1>3. q \in Contexts BY DEF Contexts
<1>4. Turned(p, q, n, p.state[n], p.link[n], p.tx[n], p.reason[n], 1) /\ q.received = p.received
  BY <1>3 DEF Contexts, Turned, Untouched, OtherEnd, Ends
<1> QED BY <1>2, <1>4

\* The message of the other end is received.
LEMMA Receiving ==
  ASSUME NEW p \in Contexts, NEW n \in Ends, NEW m \in Ends
  PROVE  LET q == [p EXCEPT !.received[m] = TRUE] IN
         /\ q \in Contexts /\ Untouched(p, q, n) /\ Untouched(p, q, OtherEnd(n)) /\ q.matches = p.matches
         /\ q.received[m] = TRUE /\ q.offloading = p.offloading /\ q.method = p.method
         /\ \A k \in Ends : k # m => q.received[k] = p.received[k]
BY DEF Contexts, Untouched, OtherEnd, Ends

\* The own message of an end is acknowledged.
LEMMA Acknowledging ==
  ASSUME NEW p \in Contexts, NEW n \in Ends
  PROVE  LET q == [p EXCEPT !.tx[n] = None] IN
         /\ Turned(p, q, n, p.state[n], p.link[n], None, p.reason[n], p.complete[n])
         /\ q.received = p.received /\ q.offloading = p.offloading /\ q.method = p.method
BY DEF Contexts, Turned, Untouched, OtherEnd, Ends

\* A link that opens.
LEMMA Opening ==
  ASSUME NEW p \in Contexts, NEW n \in Ends
  PROVE  LET q == [p EXCEPT !.link[n] = "open"] IN
         /\ Turned(p, q, n, p.state[n], "open", p.tx[n], p.reason[n], p.complete[n])
         /\ q.received = p.received
<1> DEFINE q == [p EXCEPT !.link[n] = "open"]
<1>1. "open" \in LinkStates BY DEF LinkStates
<1>2. q \in Contexts BY <1>1 DEF Contexts
<1> QED BY <1>2 DEF Contexts, Turned, Untouched, OtherEnd, Ends

\* A link that is closed.
LEMMA Leaving ==
  ASSUME NEW p \in Contexts, NEW n \in Ends
  PROVE  LET q == [p EXCEPT !.link[n] = "closed", !.tx[n] = None] IN
         /\ Turned(p, q, n, p.state[n], "closed", None, p.reason[n], p.complete[n])
         /\ q.received = p.received
<1> DEFINE q == [p EXCEPT !.link[n] = "closed", !.tx[n] = None]
<1>1. "closed" \in LinkStates BY DEF LinkStates
<1>2. q \in Contexts BY <1>1 DEF Contexts
<1> QED BY <1>2 DEF Contexts, Turned, Untouched, OtherEnd, Ends

\* What the application says of its authentication data.
LEMMA Matching ==
  ASSUME NEW p \in Contexts, NEW right \in BOOLEAN
  PROVE  LET q == [p EXCEPT !.matches = @ /\ right] IN
         /\ q \in Contexts
         /\ q.state = p.state /\ q.link = p.link /\ q.tx = p.tx /\ q.received = p.received
         /\ q.reason = p.reason /\ q.complete = p.complete
BY DEF Contexts

\* The event of a failure.
LEMMA Failing ==
  ASSUME NEW p \in Contexts
  PROVE  LET q == [p EXCEPT !.failed = TRUE] IN
         /\ q \in Contexts
         /\ q.state = p.state /\ q.link = p.link /\ q.tx = p.tx /\ q.received = p.received
         /\ q.reason = p.reason /\ q.complete = p.complete /\ q.matches = p.matches
BY DEF Contexts

-----------------------------------------------------------------------------
(* Steps that are of no concern to the invariant *)

\* A provisioner that does not begin or end to wait for the last message.
LEMMA ProvisionerGoesOn ==
  ASSUME NEW p \in Contexts, NEW q \in Contexts, Joint(p),
         p.link["provisioner"] = "open", p.state["provisioner"] # "WAIT_COMPLETE",
         NEW s, s \notin {"WAIT_LINK", "WAIT_COMPLETE", "IDLE"}, NEW tx, tx # "DATA",
         q.state["provisioner"] = s, q.link["provisioner"] = "open", q.tx["provisioner"] = tx,
         q.reason["provisioner"] = p.reason["provisioner"],
         q.complete["provisioner"] = p.complete["provisioner"],
         Untouched(p, q, "provisionee")
  PROVE  Joint(q)
BY DEF Joint, EndSound, ProvisionerSound, ProvisioneeSound, Agreed, Untouched, None

\* A provisionee that has not sent its random number.
LEMMA ProvisioneeGoesOn ==
  ASSUME NEW p \in Contexts, NEW q \in Contexts, Joint(p),
         p.link["provisionee"] = "open", p.state["provisionee"] \notin Authenticated,
         NEW s, s \notin {"WAIT_LINK", "WAIT_DATA", "COMPLETE", "IDLE"},
         NEW tx, tx \notin {"RANDOM", "COMPLETE"},
         q.state["provisionee"] = s, q.link["provisionee"] = "open", q.tx["provisionee"] = tx,
         q.reason["provisionee"] = p.reason["provisionee"],
         q.complete["provisionee"] = p.complete["provisionee"],
         Untouched(p, q, "provisioner")
  PROVE  Joint(q)
BY DEF Joint, EndSound, ProvisionerSound, ProvisioneeSound, Agreed, Untouched, None, Authenticated

\* An end that begins to close the link, without success.
LEMMA ClosesWithout ==
  ASSUME NEW p \in Contexts, NEW q \in Contexts, Joint(p), NEW n \in Ends, NEW reason,
         p.link[n] = "open" \/ (n = "provisioner" /\ p.link[n] = "opening"), reason # "SUCCESS",
         q.state[n] = p.state[n], q.link[n] = "closing", q.tx[n] = p.tx[n],
         q.reason[n] = reason, q.complete[n] = p.complete[n],
         Untouched(p, q, OtherEnd(n)), q.matches = p.matches,
         p.tx["provisionee"] = "COMPLETE" => q.received["provisionee"] = p.received["provisionee"]
  PROVE  Joint(q)
<1>1. CASE n = "provisioner"
  BY <1>1 DEF Joint, EndSound, ProvisionerSound, ProvisioneeSound, Agreed, Untouched, None, OtherEnd
<1>2. CASE n = "provisionee"
  BY <1>2 DEF Joint, EndSound, ProvisionerSound, ProvisioneeSound, Agreed, Untouched, None, OtherEnd
<1> QED BY <1>1, <1>2 DEF Ends

-----------------------------------------------------------------------------
(* The handlers *)

\* The states in which an end waits for its user, or for what follows him.
Asking == {"WAIT_EXTERNAL_ECDH", "WAIT_OOB_INPUT", "WAIT_OOB_STATIC", "WAIT_INPUT_COMPLETE", "WAIT_CONFIRMATION"}

\* An authentication begins in one of those states, and with a confirmation at most.
LEMMA Requesting ==
  ASSUME NEW p \in Contexts, NEW n \in Ends
  PROVE  \E s \in Asking, tx \in {p.tx[n], "CONFIRMATION"} :
           /\ Turned(p, RequestAuthentication(p, n), n, s, p.link[n], tx, p.reason[n], p.complete[n])
           /\ tx = p.tx[n] \/ n = "provisioner"
<1> DEFINE q == RequestAuthentication(p, n)
<1>1. /\ Asking \subseteq ProvStates /\ "CONFIRMATION" \in Pdus
      /\ {"WAIT_CONFIRMATION", "WAIT_INPUT_COMPLETE", "WAIT_OOB_STATIC", "WAIT_OOB_INPUT"} \subseteq Asking
  BY DEF Asking, ProvStates, Pdus
<1>2. \/ \E s \in {"WAIT_CONFIRMATION", "WAIT_INPUT_COMPLETE", "WAIT_OOB_STATIC", "WAIT_OOB_INPUT"} : q = Enter(p, n, s)
      \/ n = "provisioner" /\ q = SendConfirmation(p)
  BY DEF RequestAuthentication
<1>3. CASE n = "provisioner" /\ q = SendConfirmation(p)
  <2>1. q = Enter(SendPdu(p, n, "CONFIRMATION"), n, "WAIT_CONFIRMATION") BY <1>3 DEF SendConfirmation
  <2>2. Turned(p, q, n, "WAIT_CONFIRMATION", p.link[n], "CONFIRMATION", p.reason[n], p.complete[n])
    BY <1>1, <2>1, Answering
  <2> QED BY <1>1, <1>3, <2>2
<1>4. CASE \E s \in {"WAIT_CONFIRMATION", "WAIT_INPUT_COMPLETE", "WAIT_OOB_STATIC", "WAIT_OOB_INPUT"} : q = Enter(p, n, s)
  <2>1. PICK s \in {"WAIT_CONFIRMATION", "WAIT_INPUT_COMPLETE", "WAIT_OOB_STATIC", "WAIT_OOB_INPUT"} : q = Enter(p, n, s)
    BY <1>4
  <2>2. s \in Asking /\ s \in ProvStates BY <1>1
  <2>3. Turned(p, q, n, s, p.link[n], p.tx[n], p.reason[n], p.complete[n])
    BY <2>1, <2>2, Entering
  <2> QED BY <2>2, <2>3
<1> QED BY <1>2, <1>3, <1>4

\* The same where an application may compute the shared secret.
LEMMA Starting ==
  ASSUME NEW p \in Contexts, NEW n \in Ends
  PROVE  \E s \in Asking, tx \in {p.tx[n], "CONFIRMATION"} :
           /\ Turned(p, StartAuthentication(p, n), n, s, p.link[n], tx, p.reason[n], p.complete[n])
           /\ tx = p.tx[n] \/ n = "provisioner"
<1>1. CASE n \in p.offloading
  <2>1. "WAIT_EXTERNAL_ECDH" \in ProvStates /\ "WAIT_EXTERNAL_ECDH" \in Asking BY DEF ProvStates, Asking
  <2>2. StartAuthentication(p, n) = Enter(p, n, "WAIT_EXTERNAL_ECDH") BY <1>1 DEF StartAuthentication
  <2>3. Turned(p, StartAuthentication(p, n), n, "WAIT_EXTERNAL_ECDH", p.link[n], p.tx[n], p.reason[n], p.complete[n])
    BY <2>1, <2>2, Entering
  <2> QED BY <2>1, <2>3
<1>2. CASE n \notin p.offloading
  BY <1>2, Requesting DEF StartAuthentication
<1> QED BY <1>1, <1>2

\* The messages that a provisioner takes.
LEMMA ProvisionerTakes ==
  ASSUME NEW p \in Contexts, Joint(p),
         p.link["provisioner"] = "open", p.tx["provisioner"] = None, p.tx["provisionee"] # None
  PROVE  LET q == ProvisionerPktIn([p EXCEPT !.received["provisionee"] = TRUE], p.tx["provisionee"])
         IN  q \in Contexts /\ Joint(q)
<1> DEFINE r == [p EXCEPT !.received["provisionee"] = TRUE]
           pdu == p.tx["provisionee"]
           s == p.state["provisioner"]
           q == ProvisionerPktIn(r, pdu)
<1>1. "provisioner" \in Ends /\ "provisionee" \in Ends /\ OtherEnd("provisioner") = "provisionee"
  BY DEF Ends, OtherEnd
<1>2. /\ r \in Contexts /\ Untouched(p, r, "provisioner") /\ Untouched(p, r, "provisionee")
      /\ r.matches = p.matches /\ r.received["provisionee"] = TRUE
  BY <1>1, Receiving
<1> HIDE DEF r
<1> SUFFICES q \in Contexts /\ Joint(q) BY DEF r
<1>4. {"WAIT_CAPS_CONFIRM", "WAIT_CONFIRMATION", "WAIT_RANDOM", "WAIT_COMPLETE"} \subseteq ProvStates
  BY DEF ProvStates
<1>5. {"CONFIRMATION", "RANDOM", "DATA"} \subseteq Pdus BY DEF Pdus
<1>6. {"SUCCESS", "ERROR"} \subseteq Reasons BY DEF Reasons
<1>7. CASE pdu = "CAPABILITIES" /\ s = "WAIT_CAPS"
  <2>1. q = Enter(r, "provisioner", "WAIT_CAPS_CONFIRM") BY <1>2, <1>7 DEF ProvisionerPktIn, Untouched
  <2>2. Turned(r, q, "provisioner", "WAIT_CAPS_CONFIRM", r.link["provisioner"], r.tx["provisioner"],
               r.reason["provisioner"], r.complete["provisioner"])
    BY <1>1, <1>2, <1>4, <2>1, Entering
  <2> HIDE DEF q
  <2>3. Untouched(p, q, "provisionee") /\ q \in Contexts /\ q.state["provisioner"] = "WAIT_CAPS_CONFIRM"
        /\ q.link["provisioner"] = "open" /\ q.tx["provisioner"] = None
        /\ q.reason["provisioner"] = p.reason["provisioner"] /\ q.complete["provisioner"] = p.complete["provisioner"]
    BY <1>1, <1>2, <2>2 DEF Untouched, Turned
  <2> QED BY <1>7, <2>3, ProvisionerGoesOn DEF None
<1>8. CASE pdu = "PUBLIC_KEY" /\ s = "WAIT_PUB_KEY"
  <2>1. q = StartAuthentication(r, "provisioner") BY <1>2, <1>8 DEF ProvisionerPktIn, Untouched
  <2>2. PICK t \in Asking, tx \in {r.tx["provisioner"], "CONFIRMATION"} :
          Turned(r, q, "provisioner", t, r.link["provisioner"], tx, r.reason["provisioner"], r.complete["provisioner"])
    BY <1>1, <1>2, <2>1, Starting
  <2> HIDE DEF q
  <2>3. Untouched(p, q, "provisionee") /\ q \in Contexts /\ q.state["provisioner"] = t
        /\ q.link["provisioner"] = "open" /\ q.tx["provisioner"] = tx
        /\ q.reason["provisioner"] = p.reason["provisioner"] /\ q.complete["provisioner"] = p.complete["provisioner"]
    BY <1>1, <1>2, <2>2 DEF Untouched, Turned
  <2>4. tx # "DATA" BY <1>2, <2>2 DEF None, Untouched
  <2>5. t \notin {"WAIT_LINK", "WAIT_COMPLETE", "IDLE"} BY <2>2 DEF Asking
  <2> QED BY <1>8, <2>3, <2>4, <2>5, ProvisionerGoesOn
<1>9. CASE pdu = "INPUT_COMPLETE" /\ s = "WAIT_INPUT_COMPLETE"
  <2>1. q = Enter(SendPdu(r, "provisioner", "CONFIRMATION"), "provisioner", "WAIT_CONFIRMATION")
    BY <1>2, <1>9 DEF ProvisionerPktIn, Untouched, SendConfirmation
  <2>2. Turned(r, q, "provisioner", "WAIT_CONFIRMATION", r.link["provisioner"], "CONFIRMATION",
               r.reason["provisioner"], r.complete["provisioner"])
    BY <1>1, <1>2, <1>4, <1>5, <2>1, Answering
  <2> HIDE DEF q
  <2>3. Untouched(p, q, "provisionee") /\ q \in Contexts /\ q.state["provisioner"] = "WAIT_CONFIRMATION"
        /\ q.link["provisioner"] = "open" /\ q.tx["provisioner"] = "CONFIRMATION"
        /\ q.reason["provisioner"] = p.reason["provisioner"] /\ q.complete["provisioner"] = p.complete["provisioner"]
    BY <1>1, <1>2, <2>2 DEF Untouched, Turned
  <2> QED BY <1>9, <2>3, ProvisionerGoesOn
<1>10. CASE pdu = "CONFIRMATION" /\ s = "WAIT_CONFIRMATION"
  <2>1. q = Enter(SendPdu(r, "provisioner", "RANDOM"), "provisioner", "WAIT_RANDOM")
    BY <1>2, <1>10 DEF ProvisionerPktIn, Untouched
  <2>2. Turned(r, q, "provisioner", "WAIT_RANDOM", r.link["provisioner"], "RANDOM",
               r.reason["provisioner"], r.complete["provisioner"])
    BY <1>1, <1>2, <1>4, <1>5, <2>1, Answering
  <2> HIDE DEF q
  <2>3. Untouched(p, q, "provisionee") /\ q \in Contexts /\ q.state["provisioner"] = "WAIT_RANDOM"
        /\ q.link["provisioner"] = "open" /\ q.tx["provisioner"] = "RANDOM"
        /\ q.reason["provisioner"] = p.reason["provisioner"] /\ q.complete["provisioner"] = p.complete["provisioner"]
    BY <1>1, <1>2, <2>2 DEF Untouched, Turned
  <2> QED BY <1>10, <2>3, ProvisionerGoesOn
<1>11. CASE pdu = "RANDOM" /\ s = "WAIT_RANDOM" /\ p.matches = TRUE
  <2>1. q = Enter(SendPdu(r, "provisioner", "DATA"), "provisioner", "WAIT_COMPLETE")
    BY <1>2, <1>11 DEF ProvisionerPktIn, Untouched
  <2>2. Turned(r, q, "provisioner", "WAIT_COMPLETE", r.link["provisioner"], "DATA",
               r.reason["provisioner"], r.complete["provisioner"])
    BY <1>1, <1>2, <1>4, <1>5, <2>1, Answering
  <2> HIDE DEF q
  <2>3. Untouched(p, q, "provisionee") /\ q \in Contexts /\ q.state["provisioner"] = "WAIT_COMPLETE"
        /\ q.link["provisioner"] = "open" /\ q.tx["provisioner"] = "DATA" /\ q.matches = p.matches
        /\ q.reason["provisioner"] = p.reason["provisioner"] /\ q.complete["provisioner"] = p.complete["provisioner"]
    BY <1>1, <1>2, <2>2 DEF Untouched, Turned
  <2>4. Joint(q)
    BY <1>11, <2>3 DEF Joint, EndSound, ProvisionerSound, ProvisioneeSound, Agreed, Untouched, None, Authenticated
  <2> QED BY <2>3, <2>4
<1>12. CASE pdu = "RANDOM" /\ s = "WAIT_RANDOM" /\ p.matches # TRUE
  <2>0. p.matches = FALSE BY <1>12 DEF Contexts
  <2>1. q = CloseFor(r, "provisioner", "ERROR")
    BY <1>2, <1>12, <2>0 DEF ProvisionerPktIn, Untouched
  <2>2. Turned(r, q, "provisioner", r.state["provisioner"], "closing", r.tx["provisioner"], "ERROR", r.complete["provisioner"])
    BY <1>1, <1>2, <1>6, <2>1, Closing DEF Untouched
  <2> HIDE DEF q
  <2>3. Untouched(p, q, "provisionee") /\ q \in Contexts /\ q.state["provisioner"] = s
        /\ q.link["provisioner"] = "closing" /\ q.tx["provisioner"] = p.tx["provisioner"] /\ q.matches = p.matches
        /\ q.reason["provisioner"] = "ERROR" /\ q.complete["provisioner"] = p.complete["provisioner"]
    BY <1>1, <1>2, <2>2 DEF Untouched, Turned
  <2> QED BY <1>1, <1>12, <2>3, ClosesWithout
<1>13. CASE pdu = "COMPLETE" /\ s = "WAIT_COMPLETE"
  <2> DEFINE c == CompleteProvisioning(r, "provisioner")
  <2>1. q = CloseFor(c, "provisioner", "SUCCESS")
    BY <1>2, <1>13 DEF ProvisionerPktIn, Untouched
  <2>2. r.complete["provisioner"] # 1 BY <1>2 DEF Untouched, Joint, ProvisionerSound
  <2>3. /\ Turned(r, c, "provisioner", r.state["provisioner"], r.link["provisioner"], r.tx["provisioner"],
                  r.reason["provisioner"], 1)
        /\ c.received = r.received
    BY <1>1, <1>2, <2>2, Completing
  <2> HIDE DEF c
  <2>4. c \in Contexts /\ c.link["provisioner"] = "open" BY <1>2, <2>3 DEF Turned, Untouched
  <2>5. Turned(c, q, "provisioner", c.state["provisioner"], "closing", c.tx["provisioner"], "SUCCESS", c.complete["provisioner"])
    BY <1>1, <1>6, <2>1, <2>4, Closing
  <2> HIDE DEF q
  <2>6. Untouched(p, q, "provisionee") /\ q \in Contexts /\ q.state["provisioner"] = s
        /\ q.link["provisioner"] = "closing" /\ q.tx["provisioner"] = p.tx["provisioner"] /\ q.matches = p.matches
        /\ q.reason["provisioner"] = "SUCCESS" /\ q.complete["provisioner"] = 1
    BY <1>1, <1>2, <2>3, <2>5 DEF Untouched, Turned
  <2>7. Joint(q)
    BY <1>13, <2>6 DEF Joint, EndSound, ProvisionerSound, ProvisioneeSound, Agreed, Untouched, None, Authenticated
  <2> QED BY <2>6, <2>7
<1>14. CASE pdu = "FAILED"
  <2> DEFINE c == [r EXCEPT !.failed = TRUE]
  <2>1. q = CloseFor(c, "provisioner", "ERROR")
    BY <1>14 DEF ProvisionerPktIn
  <2>2. /\ c \in Contexts /\ c.state = r.state /\ c.link = r.link /\ c.tx = r.tx /\ c.received = r.received
        /\ c.reason = r.reason /\ c.complete = r.complete /\ c.matches = r.matches
    BY <1>2, Failing
  <2> HIDE DEF c
  <2>3. Turned(c, q, "provisioner", c.state["provisioner"], "closing", c.tx["provisioner"], "ERROR", c.complete["provisioner"])
    BY <1>1, <1>2, <1>6, <2>1, <2>2, Closing DEF Untouched
  <2> HIDE DEF q
  <2>4. Untouched(p, q, "provisionee") /\ q \in Contexts /\ q.state["provisioner"] = s
        /\ q.link["provisioner"] = "closing" /\ q.tx["provisioner"] = p.tx["provisioner"] /\ q.matches = p.matches
        /\ q.reason["provisioner"] = "ERROR" /\ q.complete["provisioner"] = p.complete["provisioner"]
    BY <1>1, <1>2, <2>2, <2>3 DEF Untouched, Turned
  <2> QED BY <1>1, <1>14, <2>4, ClosesWithout
<1>15. CASE /\ ~(pdu = "CAPABILITIES" /\ s = "WAIT_CAPS") /\ ~(pdu = "PUBLIC_KEY" /\ s = "WAIT_PUB_KEY")
            /\ ~(pdu = "INPUT_COMPLETE" /\ s = "WAIT_INPUT_COMPLETE")
            /\ ~(pdu = "CONFIRMATION" /\ s = "WAIT_CONFIRMATION")
            /\ ~(pdu = "RANDOM" /\ s = "WAIT_RANDOM") /\ ~(pdu = "COMPLETE" /\ s = "WAIT_COMPLETE")
            /\ pdu # "FAILED"
  <2>1. q = r BY <1>2, <1>15 DEF ProvisionerPktIn, Untouched
  <2>2. Joint(r)
    BY <1>2, <1>15 DEF Joint, EndSound, ProvisionerSound, ProvisioneeSound, Agreed, Untouched
  <2> QED BY <1>2, <2>1, <2>2
<1> QED BY <1>7, <1>8, <1>9, <1>10, <1>11, <1>12, <1>13, <1>14, <1>15

\* The acknowledgment that a provisioner waits for.
LEMMA ProvisionerHears ==
  ASSUME NEW p \in Contexts, Joint(p), p.link["provisioner"] = "open"
  PROVE  LET q == ProvisionerAck([p EXCEPT !.tx["provisioner"] = None])
         IN  q \in Contexts /\ Joint(q)
<1> DEFINE r == [p EXCEPT !.tx["provisioner"] = None]
           q == ProvisionerAck(r)
<1>1. "provisioner" \in Ends /\ "provisionee" \in Ends /\ OtherEnd("provisioner") = "provisionee"
  BY DEF Ends, OtherEnd
<1>2. /\ Turned(p, r, "provisioner", p.state["provisioner"], p.link["provisioner"], None,
                p.reason["provisioner"], p.complete["provisioner"])
      /\ r.received = p.received
  BY <1>1, Acknowledging
<1> HIDE DEF r
<1>3. r \in Contexts /\ Joint(r)
  BY <1>1, <1>2 DEF Turned, Joint, EndSound, ProvisionerSound, ProvisioneeSound, Agreed, Untouched, None
<1> SUFFICES q \in Contexts /\ Joint(q) BY DEF r
<1>4. CASE r.state["provisioner"] = "WAIT_START_ACK"
  <2>1. "WAIT_PUB_KEY" \in ProvStates /\ "PUBLIC_KEY" \in Pdus BY DEF ProvStates, Pdus
  <2>2. q = Enter(SendPdu(r, "provisioner", "PUBLIC_KEY"), "provisioner", "WAIT_PUB_KEY")
    BY <1>4 DEF ProvisionerAck
  <2>3. Turned(r, q, "provisioner", "WAIT_PUB_KEY", r.link["provisioner"], "PUBLIC_KEY",
               r.reason["provisioner"], r.complete["provisioner"])
    BY <1>1, <1>3, <2>1, <2>2, Answering
  <2> HIDE DEF q
  <2>4. Untouched(r, q, "provisionee") /\ q \in Contexts /\ q.state["provisioner"] = "WAIT_PUB_KEY"
        /\ q.link["provisioner"] = "open" /\ q.tx["provisioner"] = "PUBLIC_KEY"
        /\ q.reason["provisioner"] = r.reason["provisioner"] /\ q.complete["provisioner"] = r.complete["provisioner"]
        /\ r.link["provisioner"] = "open"
    BY <1>1, <1>2, <2>3 DEF Turned
  <2> QED BY <1>3, <1>4, <2>4, ProvisionerGoesOn
<1>5. CASE r.state["provisioner"] # "WAIT_START_ACK"
  BY <1>3, <1>5 DEF ProvisionerAck
<1> QED BY <1>4, <1>5

\* The messages that a provisionee takes.
LEMMA ProvisioneeTakes ==
  ASSUME NEW p \in Contexts, Joint(p),
         p.link["provisionee"] = "open", p.tx["provisionee"] = None, p.tx["provisioner"] # None
  PROVE  LET q == ProvisioneePktIn([p EXCEPT !.received["provisioner"] = TRUE], p.tx["provisioner"])
         IN  q \in Contexts /\ Joint(q)
<1> DEFINE r == [p EXCEPT !.received["provisioner"] = TRUE]
           pdu == p.tx["provisioner"]
           s == p.state["provisionee"]
           q == ProvisioneePktIn(r, pdu)
<1>1. "provisioner" \in Ends /\ "provisionee" \in Ends /\ OtherEnd("provisionee") = "provisioner"
  BY DEF Ends, OtherEnd
<1>2. /\ r \in Contexts /\ Untouched(p, r, "provisionee") /\ Untouched(p, r, "provisioner")
      /\ r.matches = p.matches /\ r.received["provisionee"] = p.received["provisionee"]
  BY <1>1, Receiving
<1> HIDE DEF r
<1> SUFFICES q \in Contexts /\ Joint(q) BY DEF r
<1>4. {"WAIT_PUB_KEY", "WAIT_OOB_STATIC_C_RCVD", "FAILED"} \subseteq ProvStates
  BY DEF ProvStates
<1>5. {"CAPABILITIES", "PUBLIC_KEY", "CONFIRMATION", "RANDOM", "COMPLETE", "FAILED"} \subseteq Pdus BY DEF Pdus
<1>6. CASE pdu = "INVITE" /\ s = "INVITE"
  <2>1. q = SendPdu(r, "provisionee", "CAPABILITIES") BY <1>2, <1>6 DEF ProvisioneePktIn, Untouched
  <2>2. Turned(r, q, "provisionee", r.state["provisionee"], r.link["provisionee"], "CAPABILITIES",
               r.reason["provisionee"], r.complete["provisionee"])
    BY <1>1, <1>2, <1>5, <2>1, Sending
  <2> HIDE DEF q
  <2>3. Untouched(p, q, "provisioner") /\ q \in Contexts /\ q.state["provisionee"] = s
        /\ q.link["provisionee"] = "open" /\ q.tx["provisionee"] = "CAPABILITIES"
        /\ q.reason["provisionee"] = p.reason["provisionee"] /\ q.complete["provisionee"] = p.complete["provisionee"]
    BY <1>1, <1>2, <2>2 DEF Untouched, Turned
  <2> QED BY <1>6, <2>3, ProvisioneeGoesOn DEF Authenticated
<1>7. CASE pdu = "START" /\ s = "WAIT_START"
  <2> DEFINE k == [r EXCEPT !.pubkeyOob = r.pubkeyType]
  <2>1. /\ k \in Contexts /\ k.state = r.state /\ k.link = r.link /\ k.tx = r.tx
        /\ k.reason = r.reason /\ k.complete = r.complete
    BY <1>2 DEF Contexts
  <2>2. q = Enter(k, "provisionee", "WAIT_PUB_KEY")
    BY <1>2, <1>7 DEF ProvisioneePktIn, HandleProvStart, Untouched
  <2> HIDE DEF k
  <2>3. Turned(k, q, "provisionee", "WAIT_PUB_KEY", k.link["provisionee"], k.tx["provisionee"],
               k.reason["provisionee"], k.complete["provisionee"])
    BY <1>1, <1>4, <2>1, <2>2, Entering
  <2> HIDE DEF q
  <2>4. Untouched(p, q, "provisioner") /\ q \in Contexts /\ q.state["provisionee"] = "WAIT_PUB_KEY"
        /\ q.link["provisionee"] = "open" /\ q.tx["provisionee"] = None
        /\ q.reason["provisionee"] = p.reason["provisionee"] /\ q.complete["provisionee"] = p.complete["provisionee"]
    BY <1>1, <1>2, <2>1, <2>3 DEF Untouched, Turned
  <2> QED BY <1>7, <2>4, ProvisioneeGoesOn DEF Authenticated, None
<1>8. CASE pdu = "PUBLIC_KEY" /\ s = "WAIT_PUB_KEY"
  <2>1. q = HandlePublicKey(r) BY <1>2, <1>8 DEF ProvisioneePktIn, Untouched
  <2>2. CASE ~r.pubkeyOob
    <3>1. q = SendPdu(r, "provisionee", "PUBLIC_KEY") BY <2>1, <2>2 DEF HandlePublicKey
    <3>2. Turned(r, q, "provisionee", r.state["provisionee"], r.link["provisionee"], "PUBLIC_KEY",
                 r.reason["provisionee"], r.complete["provisionee"])
      BY <1>1, <1>2, <1>5, <3>1, Sending
    <3> HIDE DEF q
    <3>3. Untouched(p, q, "provisioner") /\ q \in Contexts /\ q.state["provisionee"] = s
          /\ q.link["provisionee"] = "open" /\ q.tx["provisionee"] = "PUBLIC_KEY"
          /\ q.reason["provisionee"] = p.reason["provisionee"] /\ q.complete["provisionee"] = p.complete["provisionee"]
      BY <1>1, <1>2, <3>2 DEF Untouched, Turned
    <3> QED BY <1>8, <3>3, ProvisioneeGoesOn DEF Authenticated
  <2>3. CASE r.pubkeyOob
    <3>1. q = StartAuthentication(r, "provisionee") BY <2>1, <2>3 DEF HandlePublicKey
    <3> HIDE DEF q
    <3>2. PICK t \in Asking :
            Turned(r, q, "provisionee", t, r.link["provisionee"], r.tx["provisionee"],
                   r.reason["provisionee"], r.complete["provisionee"])
      <4>1. "provisionee" # "provisioner" OBVIOUS
      <4> QED BY <1>1, <1>2, <3>1, <4>1, Starting
    <3>3. t \notin {"WAIT_LINK", "WAIT_DATA", "COMPLETE", "IDLE"} BY DEF Asking
    <3>4. Untouched(p, q, "provisioner") /\ q \in Contexts /\ q.state["provisionee"] = t
          /\ q.link["provisionee"] = "open" /\ q.tx["provisionee"] = None
          /\ q.reason["provisionee"] = p.reason["provisionee"] /\ q.complete["provisionee"] = p.complete["provisionee"]
      BY <1>1, <1>2, <3>2 DEF Untouched, Turned
    <3> QED BY <1>8, <3>3, <3>4, ProvisioneeGoesOn DEF Authenticated, None
  <2> QED BY <2>2, <2>3
<1>9. CASE pdu = "CONFIRMATION" /\ s = "WAIT_CONFIRMATION"
  <2>1. q = SendPdu(r, "provisionee", "CONFIRMATION") BY <1>2, <1>9 DEF ProvisioneePktIn, Untouched
  <2>2. Turned(r, q, "provisionee", r.state["provisionee"], r.link["provisionee"], "CONFIRMATION",
               r.reason["provisionee"], r.complete["provisionee"])
    BY <1>1, <1>2, <1>5, <2>1, Sending
  <2> HIDE DEF q
  <2>3. Untouched(p, q, "provisioner") /\ q \in Contexts /\ q.state["provisionee"] = s
        /\ q.link["provisionee"] = "open" /\ q.tx["provisionee"] = "CONFIRMATION"
        /\ q.reason["provisionee"] = p.reason["provisionee"] /\ q.complete["provisionee"] = p.complete["provisionee"]
    BY <1>1, <1>2, <2>2 DEF Untouched, Turned
  <2> QED BY <1>9, <2>3, ProvisioneeGoesOn DEF Authenticated
<1>10. CASE pdu = "CONFIRMATION" /\ s = "WAIT_OOB_STATIC"
  <2>1. q = Enter(r, "provisionee", "WAIT_OOB_STATIC_C_RCVD") BY <1>2, <1>10 DEF ProvisioneePktIn, Untouched
  <2>2. Turned(r, q, "provisionee", "WAIT_OOB_STATIC_C_RCVD", r.link["provisionee"], r.tx["provisionee"],
               r.reason["provisionee"], r.complete["provisionee"])
    BY <1>1, <1>2, <1>4, <2>1, Entering
  <2> HIDE DEF q
  <2>3. Untouched(p, q, "provisioner") /\ q \in Contexts /\ q.state["provisionee"] = "WAIT_OOB_STATIC_C_RCVD"
        /\ q.link["provisionee"] = "open" /\ q.tx["provisionee"] = None
        /\ q.reason["provisionee"] = p.reason["provisionee"] /\ q.complete["provisionee"] = p.complete["provisionee"]
    BY <1>1, <1>2, <2>2 DEF Untouched, Turned
  <2> QED BY <1>10, <2>3, ProvisioneeGoesOn DEF Authenticated, None
<1>11. CASE pdu = "RANDOM" /\ s = "WAIT_RANDOM" /\ p.matches = TRUE
  <2>1. q = SendPdu(r, "provisionee", "RANDOM") BY <1>2, <1>11 DEF ProvisioneePktIn, Untouched
  <2>2. Turned(r, q, "provisionee", r.state["provisionee"], r.link["provisionee"], "RANDOM",
               r.reason["provisionee"], r.complete["provisionee"])
    BY <1>1, <1>2, <1>5, <2>1, Sending
  <2> HIDE DEF q
  <2>3. Untouched(p, q, "provisioner") /\ q \in Contexts /\ q.state["provisionee"] = s
        /\ q.link["provisionee"] = "open" /\ q.tx["provisionee"] = "RANDOM" /\ q.matches = p.matches
        /\ q.reason["provisionee"] = p.reason["provisionee"] /\ q.complete["provisionee"] = p.complete["provisionee"]
    BY <1>1, <1>2, <2>2 DEF Untouched, Turned
  <2>4. Joint(q) BY <1>11, <2>3 DEF Joint, EndSound, ProvisionerSound, ProvisioneeSound, Agreed, Untouched, None, Authenticated
  <2> QED BY <2>3, <2>4
<1>12. CASE pdu = "RANDOM" /\ s = "WAIT_RANDOM" /\ p.matches # TRUE
  <2> DEFINE c == SendPdu(r, "provisionee", "FAILED")
             d == [c EXCEPT !.failed = TRUE]
  <2>1. p.matches = FALSE BY <1>12 DEF Contexts
  <2>2. q = Enter(d, "provisionee", "FAILED")
    BY <1>2, <1>12, <2>1 DEF ProvisioneePktIn, Untouched, SendFailed
  <2>3. Turned(r, c, "provisionee", r.state["provisionee"], r.link["provisionee"], "FAILED",
               r.reason["provisionee"], r.complete["provisionee"])
    BY <1>1, <1>2, <1>5, Sending
  <2> HIDE DEF c
  <2>4. /\ d \in Contexts /\ d.state = c.state /\ d.link = c.link /\ d.tx = c.tx /\ d.received = c.received
        /\ d.reason = c.reason /\ d.complete = c.complete /\ d.matches = c.matches
    BY <2>3, Failing DEF Turned
  <2> HIDE DEF d
  <2>5. Turned(d, q, "provisionee", "FAILED", d.link["provisionee"], d.tx["provisionee"],
               d.reason["provisionee"], d.complete["provisionee"])
    BY <1>1, <1>4, <2>2, <2>4, Entering
  <2> HIDE DEF q
  <2>6. Untouched(p, q, "provisioner") /\ q \in Contexts /\ q.state["provisionee"] = "FAILED"
        /\ q.link["provisionee"] = "open" /\ q.tx["provisionee"] = "FAILED" /\ q.matches = p.matches
        /\ q.reason["provisionee"] = p.reason["provisionee"] /\ q.complete["provisionee"] = p.complete["provisionee"]
    BY <1>1, <1>2, <2>3, <2>4, <2>5 DEF Untouched, Turned
  <2>7. Joint(q) BY <1>12, <2>6 DEF Joint, EndSound, ProvisionerSound, ProvisioneeSound, Agreed, Untouched, None, Authenticated
  <2> QED BY <2>6, <2>7
<1>13. CASE pdu = "DATA" /\ s = "WAIT_DATA"
  <2>1. q = SendPdu(r, "provisionee", "COMPLETE") BY <1>2, <1>13 DEF ProvisioneePktIn, Untouched
  <2>2. /\ Turned(r, q, "provisionee", r.state["provisionee"], r.link["provisionee"], "COMPLETE",
                  r.reason["provisionee"], r.complete["provisionee"])
        /\ q.received["provisionee"] = FALSE
    BY <1>1, <1>2, <1>5, <2>1, Sending
  <2> HIDE DEF q
  <2>3. Untouched(p, q, "provisioner") /\ q \in Contexts /\ q.state["provisionee"] = s
        /\ q.link["provisionee"] = "open" /\ q.tx["provisionee"] = "COMPLETE" /\ q.matches = p.matches
        /\ q.reason["provisionee"] = p.reason["provisionee"] /\ q.complete["provisionee"] = p.complete["provisionee"]
    BY <1>1, <1>2, <2>2 DEF Untouched, Turned
  <2>4. Joint(q) BY <1>13, <2>2, <2>3 DEF Joint, EndSound, ProvisionerSound, ProvisioneeSound, Agreed, Untouched, None, Authenticated
  <2> QED BY <2>3, <2>4
<1>14. CASE /\ ~(pdu = "INVITE" /\ s = "INVITE") /\ ~(pdu = "START" /\ s = "WAIT_START")
            /\ ~(pdu = "PUBLIC_KEY" /\ s = "WAIT_PUB_KEY")
            /\ ~(pdu = "CONFIRMATION" /\ s = "WAIT_CONFIRMATION")
            /\ ~(pdu = "CONFIRMATION" /\ s = "WAIT_OOB_STATIC")
            /\ ~(pdu = "RANDOM" /\ s = "WAIT_RANDOM") /\ ~(pdu = "DATA" /\ s = "WAIT_DATA")
  <2>1. q = r BY <1>2, <1>14 DEF ProvisioneePktIn, Untouched
  <2>2. Joint(r) BY <1>2 DEF Joint, EndSound, ProvisionerSound, ProvisioneeSound, Agreed, Untouched, None, Authenticated
  <2> QED BY <1>2, <2>1, <2>2
<1> QED BY <1>6, <1>7, <1>8, <1>9, <1>10, <1>11, <1>12, <1>13, <1>14

\* The acknowledgments that move a provisionee on.
LEMMA ProvisioneeHears ==
  ASSUME NEW p \in Contexts, Joint(p), p.link["provisionee"] = "open",
         p.tx["provisionee"] # None, p.received["provisionee"] = TRUE
  PROVE  LET q == ProvisioneeAck([p EXCEPT !.tx["provisionee"] = None])
         IN  q \in Contexts /\ Joint(q)
<1> DEFINE r == [p EXCEPT !.tx["provisionee"] = None]
           s == r.state["provisionee"]
           q == ProvisioneeAck(r)
<1>1. "provisioner" \in Ends /\ "provisionee" \in Ends /\ OtherEnd("provisionee") = "provisioner"
  BY DEF Ends, OtherEnd
<1>2. Turned(p, r, "provisionee", p.state["provisionee"], p.link["provisionee"], None,
             p.reason["provisionee"], p.complete["provisionee"])
  BY <1>1, Acknowledging
<1> HIDE DEF r
<1>3. /\ r \in Contexts /\ Joint(r) /\ r.link["provisionee"] = "open" /\ r.tx["provisionee"] = None
      /\ s = "WAIT_DATA" => r.complete["provisioner"] = 1
  BY <1>1, <1>2 DEF Turned, Joint, EndSound, ProvisionerSound, ProvisioneeSound, Agreed, Untouched, None, Authenticated
<1> SUFFICES q \in Contexts /\ Joint(q) BY DEF r
<1>4. {"WAIT_START", "WAIT_CONFIRMATION", "WAIT_RANDOM", "WAIT_DATA", "COMPLETE"} \subseteq ProvStates
  BY DEF ProvStates
<1>5. ASSUME NEW t \in {"WAIT_START", "WAIT_CONFIRMATION", "WAIT_RANDOM"}, q = Enter(r, "provisionee", t), s \notin Authenticated
      PROVE  q \in Contexts /\ Joint(q)
  <2>1. Turned(r, q, "provisionee", t, r.link["provisionee"], r.tx["provisionee"],
               r.reason["provisionee"], r.complete["provisionee"])
    BY <1>1, <1>3, <1>4, <1>5, Entering
  <2> HIDE DEF q
  <2>2. Untouched(r, q, "provisioner") /\ q \in Contexts /\ q.state["provisionee"] = t
        /\ q.link["provisionee"] = "open" /\ q.tx["provisionee"] = None
        /\ q.reason["provisionee"] = r.reason["provisionee"] /\ q.complete["provisionee"] = r.complete["provisionee"]
    BY <1>1, <1>3, <2>1 DEF Untouched, Turned
  <2>3. None \notin {"RANDOM", "COMPLETE"} /\ t \notin {"WAIT_LINK", "WAIT_DATA", "COMPLETE", "IDLE"} BY DEF None
  <2> QED BY <1>3, <1>5, <2>2, <2>3, ProvisioneeGoesOn
<1>6. CASE s \in {"INVITE", "WAIT_OOB_INPUT", "WAIT_OOB_STATIC_C_RCVD", "WAIT_CONFIRMATION"}
  <2>1. s \notin Authenticated BY <1>6 DEF Authenticated
  <2>2. \E t \in {"WAIT_START", "WAIT_CONFIRMATION", "WAIT_RANDOM"} : q = Enter(r, "provisionee", t)
    BY <1>6 DEF ProvisioneeAck
  <2> QED BY <1>5, <2>1, <2>2
<1>7. CASE s = "WAIT_PUB_KEY"
  <2>1. q = StartAuthentication(r, "provisionee") BY <1>7 DEF ProvisioneeAck
  <2>2. PICK t \in Asking, tx \in {r.tx["provisionee"], "CONFIRMATION"} :
          Turned(r, q, "provisionee", t, r.link["provisionee"], tx, r.reason["provisionee"], r.complete["provisionee"])
    BY <1>1, <1>3, <2>1, Starting
  <2> HIDE DEF q
  <2>3. Untouched(r, q, "provisioner") /\ q \in Contexts /\ q.state["provisionee"] = t
        /\ q.link["provisionee"] = "open" /\ q.tx["provisionee"] = tx
        /\ q.reason["provisionee"] = r.reason["provisionee"] /\ q.complete["provisionee"] = r.complete["provisionee"]
    BY <1>1, <1>3, <2>2 DEF Untouched, Turned
  <2>4. tx \notin {"RANDOM", "COMPLETE"} BY <1>3, <2>2 DEF None
  <2>5. t \notin {"WAIT_LINK", "WAIT_DATA", "COMPLETE", "IDLE"} BY <2>2 DEF Asking
  <2>6. s \notin Authenticated BY <1>7 DEF Authenticated
  <2> QED BY <1>3, <2>3, <2>4, <2>5, <2>6, ProvisioneeGoesOn
<1>8. CASE s = "WAIT_RANDOM"
  <2>1. q = Enter(r, "provisionee", "WAIT_DATA") BY <1>8 DEF ProvisioneeAck
  <2>2. Turned(r, q, "provisionee", "WAIT_DATA", r.link["provisionee"], r.tx["provisionee"],
               r.reason["provisionee"], r.complete["provisionee"])
    BY <1>1, <1>3, <1>4, <2>1, Entering
  <2> HIDE DEF q
  <2>3. q \in Contexts BY <2>2 DEF Turned
  <2>4. Joint(q) BY <1>1, <1>3, <1>8, <2>2 DEF Turned, Joint, EndSound, ProvisionerSound, ProvisioneeSound, Agreed, Untouched, None, Authenticated
  <2> QED BY <2>3, <2>4
<1>9. CASE s = "WAIT_DATA"
  <2> DEFINE c == CompleteProvisioning(r, "provisionee")
  <2>1. q = Enter(c, "provisionee", "COMPLETE") BY <1>9 DEF ProvisioneeAck
  <2>2. r.complete["provisionee"] # 1 BY <1>3, <1>9 DEF Joint, ProvisioneeSound
  <2>3. Turned(r, c, "provisionee", r.state["provisionee"], r.link["provisionee"], r.tx["provisionee"],
               r.reason["provisionee"], 1)
    BY <1>1, <1>3, <2>2, Completing
  <2> HIDE DEF c
  <2>c. c \in Contexts BY <2>3 DEF Turned
  <2>4. Turned(c, q, "provisionee", "COMPLETE", c.link["provisionee"], c.tx["provisionee"],
               c.reason["provisionee"], c.complete["provisionee"])
    BY <1>1, <1>4, <2>1, <2>c, Entering
  <2> HIDE DEF q
  <2>5. q \in Contexts BY <2>4 DEF Turned
  <2>6. Joint(q) BY <1>1, <1>3, <1>9, <2>3, <2>4 DEF Turned, Joint, EndSound, ProvisionerSound, ProvisioneeSound, Agreed, Untouched, None, Authenticated
  <2> QED BY <2>5, <2>6
<1>10. CASE s \notin {"INVITE", "WAIT_OOB_INPUT", "WAIT_OOB_STATIC_C_RCVD", "WAIT_CONFIRMATION", "WAIT_PUB_KEY",
                      "WAIT_RANDOM", "WAIT_DATA"}
  <2>1. q = r BY <1>10 DEF ProvisioneeAck
  <2> QED BY <1>3, <2>1
<1> QED BY <1>6, <1>7, <1>8, <1>9, <1>10

\* A link that is closed, from whichever side.
LEMMA Closes ==
  ASSUME NEW p \in Contexts, Joint(p), NEW n \in Ends, NEW reason,
         p.link[n] \in {"open", "closing"},
         n = "provisionee" /\ reason = "SUCCESS" => p.complete["provisioner"] = 1
  PROVE  OnLinkClosed(p, n, reason) \in Contexts /\ Joint(OnLinkClosed(p, n, reason))
<1> DEFINE r == [p EXCEPT !.link[n] = "closed", !.tx[n] = None]
           q == OnLinkClosed(p, n, reason)
<1>1. Turned(p, r, n, p.state[n], "closed", None, p.reason[n], p.complete[n])
  BY Leaving
<1>2. q = IF n = "provisioner" THEN ProvisionerClosed(r) ELSE ProvisioneeClosed(r, reason)
  BY DEF OnLinkClosed
<1>3. "IDLE" \in ProvStates /\ r \in Contexts BY <1>1 DEF ProvStates, Turned
<1> HIDE DEF r, q
<1> SUFFICES q \in Contexts /\ Joint(q) BY DEF q
<1>4. CASE q = Enter(r, n, "IDLE")
  <2>1. Turned(r, q, n, "IDLE", r.link[n], r.tx[n], r.reason[n], r.complete[n])
    BY <1>3, <1>4, Entering
  <2>2. q \in Contexts /\ q.state[n] = "IDLE" /\ q.link[n] = "closed" /\ q.tx[n] = None /\ q.reason[n] = p.reason[n]
        /\ q.complete[n] = p.complete[n] /\ Untouched(p, q, OtherEnd(n)) /\ q.matches = p.matches
        /\ q.received[OtherEnd(n)] = p.received[OtherEnd(n)]
    BY <1>1, <2>1 DEF Turned, Untouched
  <2>3. CASE n = "provisioner"
    BY <2>2, <2>3 DEF Joint, EndSound, ProvisionerSound, ProvisioneeSound, Agreed, Untouched, None, Authenticated, OtherEnd
  <2>4. CASE n = "provisionee"
    BY <2>2, <2>4 DEF Joint, EndSound, ProvisionerSound, ProvisioneeSound, Agreed, Untouched, None, Authenticated, OtherEnd
  <2> QED BY <2>2, <2>3, <2>4 DEF Ends
<1>5. CASE n = "provisionee" /\ q = Enter(CompleteProvisioning(r, n), n, "IDLE") /\ reason = "SUCCESS"
           /\ r.state[n] = "WAIT_DATA"
  <2> DEFINE c == CompleteProvisioning(r, n)
  <2>1. r.complete[n] # 1 BY <1>1, <1>5 DEF Turned, Joint, ProvisioneeSound
  <2>2. Turned(r, c, n, r.state[n], r.link[n], r.tx[n], r.reason[n], 1)
    BY <1>3, <2>1, Completing
  <2> HIDE DEF c
  <2>3. c \in Contexts /\ q = Enter(c, n, "IDLE") BY <1>5, <2>2 DEF Turned, c
  <2>4. Turned(c, q, n, "IDLE", c.link[n], c.tx[n], c.reason[n], c.complete[n])
    BY <1>3, <2>3, Entering
  <2>5. q \in Contexts /\ q.state[n] = "IDLE" /\ q.link[n] = "closed" /\ q.tx[n] = None /\ q.reason[n] = p.reason[n]
        /\ q.complete[n] = 1 /\ Untouched(p, q, "provisioner") /\ q.matches = p.matches
    BY <1>1, <1>5, <2>2, <2>4 DEF Turned, Untouched, OtherEnd
  <2>6. Joint(q)
    BY <1>5, <2>5 DEF Joint, EndSound, ProvisionerSound, ProvisioneeSound, Agreed, Untouched, None, Authenticated
  <2> QED BY <2>5, <2>6
<1> QED BY <1>2, <1>4, <1>5 DEF ProvisionerClosed, ProvisioneeClosed, Ends

\* A link that opens.
LEMMA Opens ==
  ASSUME NEW p \in Contexts, Joint(p), NEW n \in Ends, p.link[n] = "opening"
  PROVE  LET r == [p EXCEPT !.link[n] = "open"]
             q == IF n = "provisioner" THEN ProvisionerOpened(r) ELSE ProvisioneeOpened(r)
         IN  q \in Contexts /\ Joint(q)
<1> DEFINE r == [p EXCEPT !.link[n] = "open"]
           q == IF n = "provisioner" THEN ProvisionerOpened(r) ELSE ProvisioneeOpened(r)
<1>1. Turned(p, r, n, p.state[n], "open", p.tx[n], p.reason[n], p.complete[n])
  BY Opening
<1>2. r \in Contexts BY <1>1 DEF Turned
<1>3. "INVITE" \in ProvStates /\ "WAIT_CAPS" \in ProvStates /\ "INVITE" \in Pdus BY DEF ProvStates, Pdus
<1> HIDE DEF r
<1> SUFFICES q \in Contexts /\ Joint(q) BY DEF r
<1>4. CASE n = "provisioner"
  <2>1. q = Enter(SendPdu(r, n, "INVITE"), n, "WAIT_CAPS") BY <1>4 DEF ProvisionerOpened
  <2>2. Turned(r, q, n, "WAIT_CAPS", r.link[n], "INVITE", r.reason[n], r.complete[n])
    BY <1>2, <1>3, <2>1, Answering
  <2> HIDE DEF q
  <2>3. q \in Contexts BY <2>2 DEF Turned
  <2>4. Joint(q) BY <1>1, <1>4, <2>2 DEF Turned, Joint, EndSound, ProvisionerSound, ProvisioneeSound, Agreed, Untouched, None, Authenticated, OtherEnd
  <2> QED BY <2>3, <2>4
<1>5. CASE n = "provisionee"
  <2>1. q = Enter(r, n, "INVITE") BY <1>5 DEF ProvisioneeOpened
  <2>2. Turned(r, q, n, "INVITE", r.link[n], r.tx[n], r.reason[n], r.complete[n])
    BY <1>2, <1>3, <2>1, Entering
  <2> HIDE DEF q
  <2>3. q \in Contexts BY <2>2 DEF Turned
  <2>4. Joint(q) BY <1>1, <1>5, <2>2 DEF Turned, Joint, EndSound, ProvisionerSound, ProvisioneeSound, Agreed, Untouched, None, Authenticated, OtherEnd
  <2> QED BY <2>3, <2>4
<1> QED BY <1>4, <1>5 DEF Ends

\* The call of an application that chooses, or that has the secret or the data.
LEMMA ProvisionerTold ==
  ASSUME NEW p \in Contexts, Joint(p), NEW q, NEW c \in Contexts,
         p.link["provisioner"] = "open", p.state["provisioner"] # "WAIT_COMPLETE",
         c.state = p.state, c.link = p.link, c.tx = p.tx, c.received = p.received,
         c.reason = p.reason, c.complete = p.complete,
         NEW s \in ProvStates \ {"WAIT_LINK", "WAIT_COMPLETE", "IDLE"}, NEW pdu \in Pdus \ {"DATA"},
         q = Enter(SendPdu(c, "provisioner", pdu), "provisioner", s)
  PROVE  q \in Contexts /\ Joint(q)
<1>1. "provisioner" \in Ends /\ OtherEnd("provisioner") = "provisionee" BY DEF Ends, OtherEnd
<1>2. Turned(c, q, "provisioner", s, c.link["provisioner"], pdu, c.reason["provisioner"], c.complete["provisioner"])
  BY <1>1, Answering
<1>3. q \in Contexts /\ Untouched(p, q, "provisionee") /\ q.state["provisioner"] = s
      /\ q.link["provisioner"] = "open" /\ q.tx["provisioner"] = pdu
      /\ q.reason["provisioner"] = p.reason["provisioner"] /\ q.complete["provisioner"] = p.complete["provisioner"]
  BY <1>1, <1>2 DEF Turned, Untouched
<1> QED BY <1>3, ProvisionerGoesOn

\* The answer of a provisionee's application.
LEMMA ProvisioneeTold ==
  ASSUME NEW p \in Contexts, Joint(p), NEW right \in BOOLEAN, NEW q,
         p.link["provisionee"] = "open", p.tx["provisionee"] = None,
         LET c == [p EXCEPT !.matches = @ /\ right] IN
         \/ /\ p.state["provisionee"] = "WAIT_OOB_INPUT"
            /\ q = SendPdu(c, "provisionee", "INPUT_COMPLETE")
         \/ /\ p.state["provisionee"] = "WAIT_OOB_STATIC_C_RCVD"
            /\ q = SendPdu(c, "provisionee", "CONFIRMATION")
         \/ /\ p.state["provisionee"] = "WAIT_OOB_STATIC"
            /\ q = Enter(c, "provisionee", "WAIT_CONFIRMATION")
  PROVE  q \in Contexts /\ Joint(q)
<1> DEFINE c == [p EXCEPT !.matches = @ /\ right]
<1>1. "provisionee" \in Ends /\ OtherEnd("provisionee") = "provisioner" BY DEF Ends, OtherEnd
<1>2. /\ c \in Contexts /\ c.state = p.state /\ c.link = p.link /\ c.tx = p.tx /\ c.received = p.received
      /\ c.reason = p.reason /\ c.complete = p.complete
  BY Matching
<1> HIDE DEF c
<1>3. /\ "WAIT_CONFIRMATION" \in ProvStates /\ "INPUT_COMPLETE" \in Pdus /\ "CONFIRMATION" \in Pdus
  BY DEF ProvStates, Pdus
<1>4. \E s \in {"WAIT_OOB_INPUT", "WAIT_OOB_STATIC_C_RCVD", "WAIT_CONFIRMATION"},
         tx \in {"INPUT_COMPLETE", "CONFIRMATION", None} :
        Turned(c, q, "provisionee", s, c.link["provisionee"], tx, c.reason["provisionee"], c.complete["provisionee"])
  <2>1. CASE p.state["provisionee"] = "WAIT_OOB_INPUT" /\ q = SendPdu(c, "provisionee", "INPUT_COMPLETE")
    <3>1. Turned(c, q, "provisionee", "WAIT_OOB_INPUT", c.link["provisionee"], "INPUT_COMPLETE",
                 c.reason["provisionee"], c.complete["provisionee"])
      BY <1>1, <1>2, <1>3, <2>1, Sending
    <3> QED BY <3>1
  <2>2. CASE p.state["provisionee"] = "WAIT_OOB_STATIC_C_RCVD" /\ q = SendPdu(c, "provisionee", "CONFIRMATION")
    <3>1. Turned(c, q, "provisionee", "WAIT_OOB_STATIC_C_RCVD", c.link["provisionee"], "CONFIRMATION",
                 c.reason["provisionee"], c.complete["provisionee"])
      BY <1>1, <1>2, <1>3, <2>2, Sending
    <3> QED BY <3>1
  <2>3. CASE p.state["provisionee"] = "WAIT_OOB_STATIC" /\ q = Enter(c, "provisionee", "WAIT_CONFIRMATION")
    <3>1. Turned(c, q, "provisionee", "WAIT_CONFIRMATION", c.link["provisionee"], None,
                 c.reason["provisionee"], c.complete["provisionee"])
      BY <1>1, <1>2, <1>3, <2>3, Entering
    <3> QED BY <3>1
  <2> QED BY <2>1, <2>2, <2>3 DEF c
<1>5. PICK s \in {"WAIT_OOB_INPUT", "WAIT_OOB_STATIC_C_RCVD", "WAIT_CONFIRMATION"},
           tx \in {"INPUT_COMPLETE", "CONFIRMATION", None} :
        Turned(c, q, "provisionee", s, c.link["provisionee"], tx, c.reason["provisionee"], c.complete["provisionee"])
  BY <1>4
<1>6. q \in Contexts /\ Untouched(p, q, "provisioner") /\ q.state["provisionee"] = s
      /\ q.link["provisionee"] = "open" /\ q.tx["provisionee"] = tx
      /\ q.reason["provisionee"] = p.reason["provisionee"] /\ q.complete["provisionee"] = p.complete["provisionee"]
  BY <1>1, <1>2, <1>5 DEF Turned, Untouched
<1>7. /\ p.state["provisionee"] \notin Authenticated
      /\ s \notin {"WAIT_LINK", "WAIT_DATA", "COMPLETE", "IDLE"} /\ tx \notin {"RANDOM", "COMPLETE"}
  BY DEF Authenticated, None
<1> QED BY <1>6, <1>7, ProvisioneeGoesOn

\* The shared secret of an application.
LEMMA SecretTold ==
  ASSUME NEW p \in Contexts, Joint(p), NEW n \in Ends, p.state[n] = "WAIT_EXTERNAL_ECDH",
         p.link[n] = "open", p.tx[n] = None
  PROVE  RequestAuthentication(p, n) \in Contexts /\ Joint(RequestAuthentication(p, n))
<1> DEFINE q == RequestAuthentication(p, n)
<1>1. PICK s \in Asking, tx \in {p.tx[n], "CONFIRMATION"} :
        Turned(p, q, n, s, p.link[n], tx, p.reason[n], p.complete[n])
  BY Requesting
<1> HIDE DEF q
<1>2. q \in Contexts BY <1>1 DEF Turned
<1>3. /\ s \notin {"WAIT_LINK", "WAIT_COMPLETE", "IDLE"} /\ s \notin {"WAIT_LINK", "WAIT_DATA", "COMPLETE", "IDLE"}
      /\ tx # "DATA" /\ tx \notin {"RANDOM", "COMPLETE"}
  BY DEF Asking, None
<1>4. CASE n = "provisioner"
  <2>1. Untouched(p, q, "provisionee") /\ q.state["provisioner"] = s
        /\ q.link["provisioner"] = "open" /\ q.tx["provisioner"] = tx
        /\ q.reason["provisioner"] = p.reason["provisioner"] /\ q.complete["provisioner"] = p.complete["provisioner"]
    BY <1>1, <1>4 DEF Turned, OtherEnd
  <2>2. Joint(q) BY <1>2, <1>3, <1>4, <2>1, ProvisionerGoesOn
  <2> QED BY <1>2, <2>2 DEF q
<1>5. CASE n = "provisionee"
  <2>1. Untouched(p, q, "provisioner") /\ q.state["provisionee"] = s
        /\ q.link["provisionee"] = "open" /\ q.tx["provisionee"] = tx
        /\ q.reason["provisionee"] = p.reason["provisionee"] /\ q.complete["provisionee"] = p.complete["provisionee"]
    BY <1>1, <1>5 DEF Turned, OtherEnd
  <2>2. p.state["provisionee"] \notin Authenticated BY <1>5 DEF Authenticated
  <2>3. Joint(q) BY <1>2, <1>3, <1>5, <2>1, <2>2, ProvisioneeGoesOn
  <2> QED BY <1>2, <2>3 DEF q
<1> QED BY <1>4, <1>5 DEF Ends

\* The timeout of an end.
LEMMA TimesOut ==
  ASSUME NEW p \in Contexts, Joint(p), NEW n \in Ends,
         p.link[n] = "open" \/ (n = "provisioner" /\ p.link[n] = "opening")
  PROVE  CloseFor(p, n, "TIMEOUT") \in Contexts /\ Joint(CloseFor(p, n, "TIMEOUT"))
<1> DEFINE q == CloseFor(p, n, "TIMEOUT")
<1>1. "TIMEOUT" \in Reasons BY DEF Reasons
<1>2. /\ Turned(p, q, n, p.state[n], "closing", p.tx[n], "TIMEOUT", p.complete[n])
      /\ q.received = p.received
  BY <1>1, Closing
<1> HIDE DEF q
<1>3. q \in Contexts /\ q.state[n] = p.state[n] /\ q.link[n] = "closing" /\ q.tx[n] = p.tx[n]
      /\ q.reason[n] = "TIMEOUT" /\ q.complete[n] = p.complete[n] /\ Untouched(p, q, OtherEnd(n))
      /\ q.matches = p.matches /\ q.received["provisionee"] = p.received["provisionee"]
  BY <1>2 DEF Turned
<1>4. Joint(q) BY <1>3, ClosesWithout
<1> QED BY <1>3, <1>4 DEF q

-----------------------------------------------------------------------------
(* The invariant *)

\* Everything above, of the state.
ProvInvariant == prov \in Contexts /\ Joint(prov)

\* A node that waits for a link.
LEMMA ProvBegins == ProvInit => ProvInvariant
<1> SUFFICES ASSUME NEW offloading \in SUBSET OFFLOADING, NEW type \in PUBKEY_TYPES,
                    prov = [state    |-> [n \in Ends |-> "WAIT_LINK"],
                            link     |-> [n \in Ends |-> "opening"],
                            tx       |-> [n \in Ends |-> None],
                            received |-> [n \in Ends |-> FALSE],
                            reason   |-> [n \in Ends |-> None],
                            offloading |-> offloading,
                            pubkeyType |-> type,
                            pubkeyOob |-> FALSE,
                            method   |-> None,
                            matches  |-> TRUE,
                            complete |-> [n \in Ends |-> 0],
                            failed   |-> FALSE]
             PROVE  ProvInvariant
  BY DEF ProvInit
<1>1. "WAIT_LINK" \in ProvStates /\ "opening" \in LinkStates /\ None \in Reasons
  BY DEF ProvStates, LinkStates, Reasons
<1>2. prov \in Contexts BY <1>1, ProvAssumption DEF Contexts, ProvAssumption
<1>3. "provisioner" \in Ends /\ "provisionee" \in Ends BY DEF Ends
<1>4. Joint(prov)
  BY <1>3 DEF Joint, EndSound, ProvisionerSound, ProvisioneeSound, Agreed, None, Authenticated
<1> QED BY <1>2, <1>4 DEF ProvInvariant

\* Every step keeps it.
LEMMA ProvGoesOn == ProvInvariant /\ [ProvNext]_prov => ProvInvariant'
<1> SUFFICES ASSUME ProvInvariant, [ProvNext]_prov PROVE prov' \in Contexts /\ Joint(prov')
  BY DEF ProvInvariant
<1>1. prov \in Contexts /\ Joint(prov) BY DEF ProvInvariant
<1>2. ASSUME NEW n \in Ends, Opened(n) PROVE prov' \in Contexts /\ Joint(prov')
  BY <1>1, <1>2, Opens DEF Opened
<1>3. ASSUME NEW n \in Ends, PktIn(n) PROVE prov' \in Contexts /\ Joint(prov')
  <2>1. CASE n = "provisioner" BY <1>1, <1>3, <2>1, ProvisionerTakes DEF PktIn, OtherEnd
  <2>2. CASE n = "provisionee" BY <1>1, <1>3, <2>2, ProvisioneeTakes DEF PktIn, OtherEnd
  <2> QED BY <2>1, <2>2 DEF Ends
<1>4. ASSUME NEW n \in Ends, Ack(n) PROVE prov' \in Contexts /\ Joint(prov')
  <2>1. CASE n = "provisioner" BY <1>1, <1>4, <2>1, ProvisionerHears DEF Ack
  <2>2. CASE n = "provisionee" BY <1>1, <1>4, <2>2, ProvisioneeHears DEF Ack
  <2> QED BY <2>1, <2>2 DEF Ends
<1>5. ASSUME NEW n \in Ends, Closed(n) PROVE prov' \in Contexts /\ Joint(prov')
  <2>1. n = "provisionee" /\ prov.reason[n] = "SUCCESS" => prov.complete["provisioner"] = 1
    BY <1>1 DEF Joint, ProvisioneeSound
  <2> QED BY <1>1, <1>5, <2>1, Closes DEF Closed
<1>6. ASSUME NEW n \in Ends, CloseReceived(n) PROVE prov' \in Contexts /\ Joint(prov')
  <2>1. n = "provisionee" /\ prov.reason[OtherEnd(n)] = "SUCCESS" => prov.complete["provisioner"] = 1
    BY <1>1 DEF Joint, ProvisionerSound, OtherEnd
  <2> QED BY <1>1, <1>6, <2>1, Closes DEF CloseReceived
<1>7. ASSUME NEW n \in Ends, Timeout(n) PROVE prov' \in Contexts /\ Joint(prov')
  BY <1>1, <1>7, TimesOut DEF Timeout
<1>8. ASSUME NEW method \in METHODS, OobUse(method) PROVE prov' \in Contexts /\ Joint(prov')
  <2> DEFINE c == [prov EXCEPT !.method = method]
  <2>1. /\ c \in Contexts /\ c.state = prov.state /\ c.link = prov.link /\ c.tx = prov.tx
        /\ c.received = prov.received /\ c.reason = prov.reason /\ c.complete = prov.complete
    BY <1>1 DEF Contexts
  <2>2. /\ prov' = Enter(SendPdu(c, "provisioner", "START"), "provisioner", "WAIT_START_ACK")
        /\ prov.link["provisioner"] = "open" /\ prov.state["provisioner"] = "WAIT_CAPS_CONFIRM"
    BY <1>8 DEF OobUse
  <2> HIDE DEF c
  <2>3. /\ "WAIT_START_ACK" \in ProvStates \ {"WAIT_LINK", "WAIT_COMPLETE", "IDLE"}
        /\ "START" \in Pdus \ {"DATA"}
    BY DEF ProvStates, Pdus
  <2> QED BY <1>1, <2>1, <2>2, <2>3, ProvisionerTold
<1>9. ASSUME NEW right \in BOOLEAN, ProvisionerAuthData(right) PROVE prov' \in Contexts /\ Joint(prov')
  <2> DEFINE c == [prov EXCEPT !.matches = @ /\ right]
  <2>1. /\ c \in Contexts /\ c.state = prov.state /\ c.link = prov.link /\ c.tx = prov.tx
        /\ c.received = prov.received /\ c.reason = prov.reason /\ c.complete = prov.complete
    BY <1>1, Matching
  <2>2. /\ prov' = Enter(SendPdu(c, "provisioner", "CONFIRMATION"), "provisioner", "WAIT_CONFIRMATION")
        /\ prov.link["provisioner"] = "open" /\ prov.state["provisioner"] \in {"WAIT_OOB_INPUT", "WAIT_OOB_STATIC"}
    BY <1>9 DEF ProvisionerAuthData, SendConfirmation
  <2> HIDE DEF c
  <2>3. /\ "WAIT_CONFIRMATION" \in ProvStates \ {"WAIT_LINK", "WAIT_COMPLETE", "IDLE"}
        /\ "CONFIRMATION" \in Pdus \ {"DATA"}
    BY DEF ProvStates, Pdus
  <2> QED BY <1>1, <2>1, <2>2, <2>3, ProvisionerTold
<1>10. ASSUME NEW right \in BOOLEAN, ProvisioneeAuthData(right) PROVE prov' \in Contexts /\ Joint(prov')
  BY <1>1, <1>10, ProvisioneeTold DEF ProvisioneeAuthData
<1>11. ASSUME NEW n \in Ends, SharedSecret(n) PROVE prov' \in Contexts /\ Joint(prov')
  BY <1>1, <1>11, SecretTold DEF SharedSecret
<1>12. CASE UNCHANGED prov BY <1>1, <1>12
<1> QED
  BY <1>2, <1>3, <1>4, <1>5, <1>6, <1>7, <1>8, <1>9, <1>10, <1>11, <1>12 DEF ProvNext, OobChosen, AuthData

\* It says what CompletesTogether says.
LEMMA JointCompletes == ProvInvariant => CompletesTogether
<1> SUFFICES ASSUME ProvInvariant PROVE CompletesTogether OBVIOUS
<1>1. \A n \in Ends : prov.complete[n] \in {0, 1} BY DEF ProvInvariant, Contexts
<1>2. prov.complete["provisioner"] \in {0, 1} /\ prov.complete["provisionee"] \in {0, 1} BY <1>1 DEF Ends
<1>3. /\ prov.complete["provisionee"] = 1 => prov.complete["provisioner"] = 1
      /\ prov.complete["provisioner"] = 1 => prov.matches = TRUE
  BY DEF ProvInvariant, Joint, Agreed
<1> QED BY <1>2, <1>3 DEF CompletesTogether

(***************************************************************************)
(* A node that is provisioned is known: the provisionee completes only     *)
(* with a provisioner that completed, both at most once, and neither with  *)
(* authentication data that do not agree (prov_provisioner.c,              *)
(* prov_provisionee.c), whatever messages are acknowledged late, whichever *)
(* end closes the link and why, and whoever computes the shared secret.    *)
(***************************************************************************)
THEOREM NodesCompleteTogether == ProvSpec => []CompletesTogether
<1>1. ProvInit => ProvInvariant BY ProvBegins
<1>2. ProvInvariant /\ [ProvNext]_prov => ProvInvariant' BY ProvGoesOn
<1>3. ProvInvariant => CompletesTogether BY JointCompletes
<1> QED BY <1>1, <1>2, <1>3, PTL DEF ProvSpec
=============================================================================
