-------------------------- MODULE Communication --------------------------
(***************************************************************************)
(* The TSS message transport of one node, src/p2p/communication.go, with  *)
(* the StreamMgr it owns and the sessions (KeySign calls) that use it.    *)
(*                                                                         *)
(*  - An inbound stream end is served by handleStream: it reserves        *)
(*    MaxPayload, reads one frame (readFromStream), files the stream with *)
(*    the StreamMgr and hands the message to the channel of the session's *)
(*    subscriber, if there is one.                                         *)
(*  - An outbound stream end is opened by writeToStream for a broadcast   *)
(*    of a session: it reserves MaxPayload, writes one frame, and in its  *)
(*    defer gives the memory back and files the stream.                   *)
(*  - A session subscribes its channel topic by topic (KeySign lines      *)
(*    147-150), validates its request (it may return there), signs:       *)
(*    consumes messages and broadcasts, cancels the topics one by one and *)
(*    releases its streams (the deferred function at lines 152-161).      *)
(*                                                                         *)
(* The message channel belongs to the keysign package, which is not part *)
(* of the sources: its capacity is the constant ChanCap and its reader is *)
(* the session while it signs.                                             *)
(***************************************************************************)
EXTENDS Naturals, FiniteSets, StreamMgr, Framing

CONSTANTS
    Me,         \* the node
    InEnds,     \* stream ends opened by peers towards Me (TSSProtocolID)
    OutEnds,    \* outbound streams: OutEnds[k] are those of session k's broadcasts
    Topics,     \* the message types a session subscribes
    ChanCap,    \* capacity of a session's message channel
    NoSession   \* target of a goroutine that holds no channel

ASSUME /\ Nodes = {Me} /\ LeaderEnds = {}
       /\ InEnds \cup UNION {OutEnds[k] : k \in SessionKeys} = Ends
       /\ ChanCap \in Nat /\ NoSession \notin SessionKeys

VARIABLES
    ph,         \* ph[e]: where the goroutine serving end e is
    mp,         \* mp[e]: MaxPayload reservations end e holds (0 or 1)
    kpc,        \* kpc[k]: the lifecycle of session k
    subs,       \* subs[k]: the topics of k with a subscriber (the subscribers map)
    chan,       \* chan[k]: messages buffered in k's channel
    target,     \* target[e]: the session whose channel reader e holds
    intact,     \* intact[e]: the message read from e is the one its peer wrote
    signed      \* signed[k]: session k got past its checks and started signing

vars == <<smVars, ph, mp, kpc, subs, chan, target, intact, signed>>

Init ==
    /\ SMInit
    /\ ph = [e \in Ends |-> "idle"]
    /\ mp = [e \in Ends |-> 0]
    /\ kpc = [k \in SessionKeys |-> "init"]
    /\ subs = [k \in SessionKeys |-> {}]
    /\ chan = [k \in SessionKeys |-> 0]
    /\ target = [e \in Ends |-> NoSession]
    /\ intact = [e \in Ends |-> TRUE]
    /\ signed = [k \in SessionKeys |-> FALSE]

-----------------------------------------------------------------------------
(* Sessions: KeySign on Me. *)

(* SetSubscribe(topic, msgID, channel): under the lock, the topic of the  *)
(* session gets the channel.                                               *)
SetSubscribe(k, t) ==
    /\ kpc[k] = "init"
    /\ t \notin subs[k]
    /\ subs' = [subs EXCEPT ![k] = @ \cup {t}]
    /\ kpc' = [kpc EXCEPT ![k] = IF subs'[k] = Topics THEN "active" ELSE "init"]
    /\ UNCHANGED <<smVars, ph, mp, chan, target, intact, signed>>

(* The checks after the subscriptions: GetLocalState, the base64 message, *)
(* the signer list, GetThreshold, the number of signers and GetPeerIDs;   *)
(* KeySign returns with an error at the first that fails (its deferred    *)
(* function then runs), or goes on to sign.                               *)
Validate(k) ==
    /\ kpc[k] = "active"
    /\ \/ /\ kpc' = [kpc EXCEPT ![k] = "signing"]
          /\ signed' = [signed EXCEPT ![k] = TRUE]
       \/ /\ kpc' = [kpc EXCEPT ![k] = "cancel"]
          /\ UNCHANGED signed
    /\ UNCHANGED <<smVars, ph, mp, subs, chan, target, intact>>

(* The signing party reads its channel. *)
Consume(k) ==
    /\ kpc[k] = "signing"
    /\ chan[k] > 0
    /\ chan' = [chan EXCEPT ![k] = @ - 1]
    /\ UNCHANGED <<smVars, ph, mp, kpc, subs, target, intact, signed>>

(* The waiter and the signer are done (wg.Wait) and KeySign returns: its  *)
(* deferred function starts; nothing reads the channel any more.          *)
Finish(k) ==
    /\ kpc[k] = "signing"
    /\ kpc' = [kpc EXCEPT ![k] = "cancel"]
    /\ UNCHANGED <<smVars, ph, mp, subs, chan, target, intact, signed>>

(* CancelSubscribe(topic, msgID), one topic at a time. *)
CancelSubscribe(k, t) ==
    /\ kpc[k] = "cancel"
    /\ t \in subs[k]
    /\ subs' = [subs EXCEPT ![k] = @ \ {t}]
    /\ UNCHANGED <<smVars, ph, mp, kpc, chan, target, intact, signed>>

(* p2pCommunication.ReleaseStream(msgID), after the last cancel. *)
ReleaseSession(k) ==
    /\ kpc[k] = "cancel"
    /\ subs[k] = {}
    /\ kpc' = [kpc EXCEPT ![k] = "released"]
    /\ ReleaseStream(Me, k)
    /\ UNCHANGED <<ph, mp, subs, chan, target, intact, signed>>

-----------------------------------------------------------------------------
(* Inbound: handleStream and readFromStream. *)

(* handleStream reserves MaxPayload; when the reservation fails it        *)
(* returns, and the stream is neither filed nor closed.                   *)
HandleStream(e) ==
    /\ e \in InEnds
    /\ ph[e] = "idle"
    /\ \/ /\ ph' = [ph EXCEPT ![e] = "reading"]
          /\ mp' = [mp EXCEPT ![e] = 1]
       \/ /\ ph' = [ph EXCEPT ![e] = "ended"]
          /\ UNCHANGED mp
    /\ UNCHANGED <<smVars, kpc, subs, chan, target, intact, signed>>

(* getSubscriber(topic, msgID), under the lock. *)
GetSubscriber(k, t) == t \in subs[k]

(* A read error: the stream is filed under "UNKNOWN" and handleStream's *)
(* deferred ReleaseMemory runs. *)
ReadError(e) ==
    /\ unusedStreams' = AddStream(unusedStreams, Me, Unknown, e)
    /\ ph' = [ph EXCEPT ![e] = "ended"]
    /\ mp' = [mp EXCEPT ![e] = 0]
    /\ UNCHANGED <<target, intact, signed>>

(* A WrappedMessage of topic t for session k: the stream is filed under   *)
(* k, then the subscriber's channel is taken under the lock; without a    *)
(* subscriber the message is dropped and handleStream returns.  same:     *)
(* the payload read is the message the peer wrote.                        *)
Delivered(e, same) ==
    /\ intact' = [intact EXCEPT ![e] = same]
    /\ \E k \in SessionKeys, t \in Topics :
          /\ unusedStreams' = AddStream(unusedStreams, Me, k, e)
          /\ IF GetSubscriber(k, t)
             THEN /\ ph' = [ph EXCEPT ![e] = "sending"]
                  /\ target' = [target EXCEPT ![e] = k]
                  /\ UNCHANGED mp
             ELSE /\ ph' = [ph EXCEPT ![e] = "ended"]
                  /\ mp' = [mp EXCEPT ![e] = 0]
                  /\ UNCHANGED target

(* readFromStream on a stream on which the peer wrote m and which         *)
(* carries w: ReadStreamWithBuffer fails on w, or json.Unmarshal of the   *)
(* frame fails (the payload's content is not modelled, so any frame may  *)
(* be malformed), or the message is delivered.                            *)
ReadFromStream(e) ==
    /\ ph[e] = "reading"
    /\ \E m \in Messages : \E w \in OnWire(m) :
          \/ ~ReadFrame(w).ok /\ ReadError(e)
          \/ ReadFrame(w).ok /\ ReadError(e)
          \/ ReadFrame(w).ok /\ Delivered(e, ReadFrame(w).data = m)
    /\ UNCHANGED <<closed, reserved, freed, kpc, subs, chan, signed>>

(* channel <- msg, after the lock is released: it waits while the channel *)
(* is full, whether or not the session still reads it.                    *)
Deliver(e) ==
    /\ ph[e] = "sending"
    /\ chan[target[e]] < ChanCap
    /\ chan' = [chan EXCEPT ![target[e]] = @ + 1]
    /\ ph' = [ph EXCEPT ![e] = "ended"]
    /\ mp' = [mp EXCEPT ![e] = 0]
    /\ UNCHANGED <<smVars, kpc, subs, target, intact, signed>>

-----------------------------------------------------------------------------
(* Outbound: ProcessBroadcast -> Broadcast -> writeToStream, for a message *)
(* the session put on BroadcastMsgChan; the goroutines may run after the  *)
(* session returned.                                                       *)

(* A message of session k went through BroadcastMsgChan, ProcessBroadcast *)
(* and Broadcast to the goroutines of broadcastToPeers: the session has   *)
(* subscribed and started signing (it may have returned since).          *)
BroadcastIssued(k) == signed[k]

(* connectToOnePeer fails (no stream), or the stream is opened and        *)
(* MaxPayload reserved, or the reservation fails and writeToStream        *)
(* returns before its defer: that stream is neither filed nor closed.     *)
OpenStream(k, e) ==
    /\ e \in OutEnds[k]
    /\ ph[e] = "idle"
    /\ BroadcastIssued(k)
    /\ \/ /\ ph' = [ph EXCEPT ![e] = "writing"]
          /\ mp' = [mp EXCEPT ![e] = 1]
       \/ /\ ph' = [ph EXCEPT ![e] = "ended"]
          /\ UNCHANGED mp
    /\ UNCHANGED <<smVars, kpc, subs, chan, target, intact, signed>>

(* WriteStreamWithBuffer returns, successfully or not; the defer gives    *)
(* MaxPayload back and files the stream under the session's id.           *)
WriteStream(k, e) ==
    /\ e \in OutEnds[k]
    /\ ph[e] = "writing"
    /\ ph' = [ph EXCEPT ![e] = "ended"]
    /\ mp' = [mp EXCEPT ![e] = 0]
    /\ unusedStreams' = AddStream(unusedStreams, Me, k, e)
    /\ UNCHANGED <<closed, reserved, freed, kpc, subs, chan, target, intact, signed>>

(* Every session released, and no goroutine can move: what is left waits  *)
(* on a channel nobody reads, or is a broadcast of a session that          *)
(* returned before signing, which never happened.                          *)
Quiescent ==
    /\ \A k \in SessionKeys : kpc[k] = "released"
    /\ \A e \in Ends : \/ ph[e] = "ended"
                      \/ (ph[e] = "sending" /\ chan[target[e]] = ChanCap)
                      \/ \E k \in SessionKeys : e \in OutEnds[k] /\ ~signed[k]

CommNext ==
    \/ \E k \in SessionKeys :
          \/ Validate(k) \/ Consume(k) \/ Finish(k) \/ ReleaseSession(k)
          \/ \E t \in Topics : SetSubscribe(k, t) \/ CancelSubscribe(k, t)
          \/ \E e \in Ends : OpenStream(k, e) \/ WriteStream(k, e)
    \/ \E e \in Ends : HandleStream(e) \/ ReadFromStream(e) \/ Deliver(e)
    \/ Quiescent /\ UNCHANGED vars

CommSpec == Init /\ [][CommNext]_vars

-----------------------------------------------------------------------------
(* Once every session has returned and released its streams and no       *)
(* goroutine can take a step, every MaxPayload reservation has been given *)
(* back (spec 5: "release it on every exit path").  It is about the send  *)
(* on the subscriber's channel in readFromStream, made after the lock is  *)
(* released and without a select, while handleStream's deferred           *)
(* ReleaseMemory waits for it.                                             *)
ReservationsReturned == Quiescent => \A e \in Ends : mp[e] = 0

(* A message that readFromStream hands on towards a subscriber's channel *)
(* is the message the peer's writeToStream wrote, whether the stream      *)
(* carried the whole frame, a frame cut short, or one over MaxPayload.    *)
(* It is about ReadStreamWithBuffer's header decoding, its MaxPayload     *)
(* check and its short-read check.                                        *)
DeliveredIntact == \A e \in Ends : ph[e] = "sending" => intact[e]

=============================================================================
