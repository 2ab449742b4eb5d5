------------------------------- MODULE RlpxChannel -------------------------------
(* One outbound RLPx connection: the auth handshake (auth_handshake.cpp), the   *)
(* frame cipher (frame_cipher.cpp), the message stream (message_stream.cpp) and *)
(* the Hello exchange of RlpxSession::connect. This node is the initiator "us"; *)
(* "peer" is the remote node, which runs the same frame protocol.               *)
(*                                                                              *)
(* Cryptography is ideal: a secret is the term it is computed from, a           *)
(* ciphertext is the key, the place in the key stream and the plaintext, and a  *)
(* MAC is the key and everything written into the hash. What one read_exact     *)
(* call takes is one unit of the link.                                          *)
EXTENDS Naturals, Sequences, SequencesExt

CONSTANTS kMaxFrameSize, \* the largest frame, 2^24 in the code
          Payloads,      \* lengths of the message payloads
          Versions,      \* the p2p versions a peer announces
          MaxMessages,   \* bound on the messages an end sends, its Hello included
          MaxFaults      \* bound on the units altered and the connections cut

ASSUME FrameAssumption    == kMaxFrameSize \in Nat \ {0}
ASSUME PayloadsAreLengths == Payloads \subseteq Nat
ASSUME VersionsAreNumbers == Versions \subseteq Nat

kAesBlockSize    == 16
kProtocolVersion == 5
kHelloMessageId  == 0
AnEthMessageId   == 16
HelloLength      == 20

(* The header's length field has three bytes, so its range is 2^24 too.         *)
LengthRange == kMaxFrameSize

kEciesOverheadSize          == 65 + 16 + 32
kMaxEip8HandshakePacketSize == 2048

Ends     == {"us", "peer"}
Other(e) == IF e = "us" THEN "peer" ELSE "us"

Messages == [id : {kHelloMessageId}, payload : {HelloLength}, version : Versions \cup {kProtocolVersion}]
            \cup [id : {AnEthMessageId}, payload : Payloads, version : {0}]

VARIABLES stage,         \* how far each end is
          version,       \* the p2p version each end announces
          secrets,       \* FrameSecrets of each end: its aes and mac keys
          egress,        \* egress_mac.written, as the terms written
          ingress,       \* ingress_mac.written
          enc,           \* blocks of key stream the encryption has used
          dec,           \* blocks of key stream the decryption has used
          header,        \* the frame size the last header gave, 0 for none
          compressed,    \* compression_enabled_
          link,          \* link[e]: the units on their way to e
          cut,           \* the connection is broken
          faults,        \* the faults so far
          sent,          \* the messages each end sent
          received       \* the messages each end received

ciphers == <<secrets, egress, ingress, enc, dec>>
vars    == <<stage, version, ciphers, header, compressed, link, cut, faults, sent, received>>

Init ==
    /\ stage      = [us |-> "connected", peer |-> "listening"]
    /\ \E v \in Versions : version = [us |-> kProtocolVersion, peer |-> v]
    /\ secrets    = [e \in Ends |-> [aes |-> <<>>, mac |-> <<>>]]
    /\ egress     = [e \in Ends |-> <<>>]
    /\ ingress    = [e \in Ends |-> <<>>]
    /\ enc        = [e \in Ends |-> 0]
    /\ dec        = [e \in Ends |-> 0]
    /\ header     = [e \in Ends |-> 0]
    /\ compressed = [e \in Ends |-> FALSE]
    /\ link       = [e \in Ends |-> <<>>]
    /\ cut        = FALSE
    /\ faults     = 0
    /\ sent       = [e \in Ends |-> <<>>]
    /\ received   = [e \in Ends |-> <<>>]

Become(e, s)  == stage' = [stage EXCEPT ![e] = s]

(* write_all, which fails on a broken connection, and read_exact, which fails   *)
(* when the connection broke before the unit arrived.                           *)
Write(e, units) == link' = [link EXCEPT ![Other(e)] = @ \o units]
Take(e)         == link' = [link EXCEPT ![e] = Tail(@)]
CanRead(e)      == link[e] # <<>>
ReadFails(e)    == link[e] = <<>> /\ cut

--------------------------------------------------------------------------------
(* The auth handshake. A handshake packet is a length prefix and a box sealed   *)
(* to the reader's static key; the box's MAC covers the prefix.                 *)

Prefix(n)       == [kind |-> "prefix", len |-> n]
Sealed(n, body) == [kind |-> "sealed", mac_data |-> n, body |-> body]

(* The lengths of the two bodies before they are sealed, padding included.      *)
AuthLength == 269
AckLength  == 202

Auth == [ephemeral |-> "eI", nonce |-> "nI"]
Ack  == [ephemeral |-> "eR", nonce |-> "nR"]

(* encrypt: its output is longer than its input by the overhead.                *)
AuthWire == << Prefix(AuthLength + kEciesOverheadSize), Sealed(AuthLength + kEciesOverheadSize, Auth) >>
AckWire  == << Prefix(AckLength + kEciesOverheadSize), Sealed(AckLength + kEciesOverheadSize, Ack) >>

(* decrypt: the box opens when it is the one that was sealed with this prefix.  *)
Opens(prefix, box) == box.kind = "sealed" /\ box.mac_data = prefix.len

(* The keys both come from the agreed secret and the nonces.                    *)
Keys(mine, theirs, nonces) ==
    LET shared == << {mine, theirs}, nonces >>
    IN  [aes |-> << "aes", shared >>, mac |-> << "mac", shared >>]

(* A MAC is seeded with the MAC key under the reader's nonce, then the packet.  *)
Seed(mac, nonce, wire) == << [xor |-> << mac, nonce >>, wire |-> wire] >>

derive_frame_secrets(e, mine, theirs, initiator, responder) ==
    LET k == Keys(mine, theirs, << responder, initiator >>) IN
    /\ secrets' = [secrets EXCEPT ![e] = k]
    /\ egress'  = [egress EXCEPT ![e] =
                       IF e = "us" THEN Seed(k.mac, responder, AuthWire) ELSE Seed(k.mac, initiator, AckWire)]
    /\ ingress' = [ingress EXCEPT ![e] =
                       IF e = "us" THEN Seed(k.mac, initiator, AckWire) ELSE Seed(k.mac, responder, AuthWire)]

NoTraffic == UNCHANGED << version, enc, dec, header, compressed, cut, faults, sent, received >>

SendAuth ==
    /\ stage["us"] = "connected"
    /\ IF cut THEN Become("us", "failed") /\ UNCHANGED link
       ELSE Become("us", "await_ack") /\ Write("us", AuthWire)
    /\ UNCHANGED << secrets, egress, ingress >>
    /\ NoTraffic

(* The remote node reads the auth packet, derives its secrets and answers.      *)
PeerAcks ==
    /\ stage["peer"] = "listening"
    /\ Len(link["peer"]) >= 2
    /\ LET prefix == link["peer"][1]
           box    == link["peer"][2]
       IN  IF Opens(prefix, box) /\ ~cut
           THEN /\ Become("peer", "secured")
                /\ derive_frame_secrets("peer", Ack.ephemeral, box.body.ephemeral, box.body.nonce, Ack.nonce)
                /\ link' = [us   |-> link["us"] \o AckWire, peer |-> SubSeq(link["peer"], 3, Len(link["peer"]))]
           ELSE /\ Become("peer", "failed")
                /\ UNCHANGED << link, secrets, egress, ingress >>
    /\ NoTraffic

ReadAckPrefix ==
    /\ stage["us"] = "await_ack"
    /\ CanRead("us") \/ ReadFails("us")
    /\ IF ReadFails("us") THEN Become("us", "failed") /\ UNCHANGED link
       ELSE /\ Become("us", IF Head(link["us"]).len > kMaxEip8HandshakePacketSize
                            THEN "failed" ELSE "ack_body")
            /\ header' = [header EXCEPT !["us"] = Head(link["us"]).len]
            /\ Take("us")
    /\ ReadFails("us") => UNCHANGED header
    /\ UNCHANGED << version, ciphers, compressed, cut, faults, sent, received >>

ReadAck ==
    /\ stage["us"] = "ack_body"
    /\ CanRead("us") \/ ReadFails("us")
    /\ header' = [header EXCEPT !["us"] = 0]
    /\ IF CanRead("us") /\ Opens(Prefix(header["us"]), Head(link["us"]))
       THEN /\ Become("us", "secured")
            /\ LET ack == Head(link["us"]).body
               IN  derive_frame_secrets("us", Auth.ephemeral, ack.ephemeral, Auth.nonce, ack.nonce)
            /\ Take("us")
       ELSE /\ Become("us", "failed")
            /\ UNCHANGED << link, secrets, egress, ingress >>
    /\ UNCHANGED << version, enc, dec, compressed, cut, faults, sent, received >>

--------------------------------------------------------------------------------
(* Frames. A frame is two units: the header and its MAC, the padded body and    *)
(* its MAC.                                                                     *)

(* The length of a compressed payload: short ones grow by the preamble.         *)
Snappy(n) == n + 2

(* The frame's length: the message id's byte and the payload.                   *)
FrameSize(m, zip) == 1 + (IF zip THEN Snappy(m.payload) ELSE m.payload)

PaddedBlocks(size) == (size + kAesBlockSize - 1) \div kAesBlockSize

Ciphertext(e, pos, blocks, plain) ==
    [key |-> secrets[e].aes, pos |-> pos, blocks |-> blocks, plain |-> plain]

Unit(ct, key, written) == [kind |-> "frame", ct |-> ct, mac |-> << key, written >>]

(* send_message: a payload is compressed if it is not empty, a frame that is    *)
(* too large is refused before the cipher is used, and encrypt_frame advances   *)
(* the key stream and the egress MAC by the header and the body.                *)
send_message(e, m, next) ==
    LET zip  == compressed[e] /\ m.payload > 0
        size == FrameSize(m, zip)
        n    == PaddedBlocks(size)
        hct  == Ciphertext(e, enc[e], 1, [size |-> size % LengthRange])
        bct  == Ciphertext(e, enc[e] + 1, n, [message |-> m, zip |-> zip, size |-> size])
        w1   == Append(egress[e], hct)
        w2   == Append(w1, bct)
    IN  IF size > kMaxFrameSize
        THEN Become(e, "refused") /\ UNCHANGED << enc, egress, link, sent >>
        ELSE /\ enc'    = [enc EXCEPT ![e] = @ + 1 + n]
             /\ egress' = [egress EXCEPT ![e] = w2]
             /\ IF cut THEN Become(e, "failed") /\ UNCHANGED << link, sent >>
                ELSE /\ Become(e, next)
                     /\ Write(e, << Unit(hct, secrets[e].mac, w1), Unit(bct, secrets[e].mac, w2) >>)
                     /\ sent' = [sent EXCEPT ![e] = Append(@, m)]

NoReceipt == UNCHANGED << version, secrets, ingress, dec, header, compressed, cut, faults, received >>

SendHello(e) ==
    /\ stage[e] = "secured"
    /\ send_message(e, [id |-> kHelloMessageId, payload |-> HelloLength, version |-> version[e]], "hello")
    /\ NoReceipt

(* run_send_loop takes the next posted message.                                 *)
SendNext(e) ==
    /\ stage[e] = "active"
    /\ Len(sent[e]) < MaxMessages
    /\ \E n \in Payloads :
           send_message(e, [id |-> AnEthMessageId, payload |-> n, version |-> 0], "active")
    /\ NoReceipt

(* A mutant: frames are read only once the session is active.                   *)
ReceivingWhenActive(e) == stage[e] = "active"

Receiving(e) == stage[e] \in {"hello", "active"}

(* A mutant: a body that fills its last block is taken to be padded too.        *)
BodyBlocks_Always(size) == size \div kAesBlockSize + 1

(* The blocks receive_frame reads for a frame of the size its header gave.      *)
BodyBlocks(size) == (size + kAesBlockSize - 1) \div kAesBlockSize

(* The key stream restores the plaintext at the place it was encrypted.         *)
Decrypts(e, ct) == ct.key = secrets[e].aes /\ ct.pos = dec[e]

(* compute_header and compute_frame have written the ciphertext when the MACs   *)
(* are compared.                                                                *)
MacMatches(e, u) == u.mac = << secrets[e].mac, Append(ingress[e], u.ct) >>

(* receive_frame up to the header: decrypt_header.                              *)
ReadHeader(e) ==
    /\ Receiving(e) /\ header[e] = 0
    /\ CanRead(e)
    /\ LET u  == Head(link[e])
           ok == /\ u.kind = "frame" /\ MacMatches(e, u)
                 /\ Decrypts(e, u.ct) /\ u.ct.plain.size \in 1..kMaxFrameSize
       IN  IF ok
           THEN /\ ingress' = [ingress EXCEPT ![e] = Append(@, u.ct)]
                /\ dec'     = [dec EXCEPT ![e] = @ + 1]
                /\ header'  = [header EXCEPT ![e] = u.ct.plain.size]
                /\ UNCHANGED stage
           ELSE Become(e, "failed") /\ UNCHANGED << ingress, dec, header >>
    /\ Take(e)
    /\ UNCHANGED << version, secrets, egress, enc, compressed, cut, faults, sent, received >>

(* A mutant: the payload is handed on as it came.                               *)
Decoded_Raw(e, p) == IF p.zip THEN [p.message EXCEPT !.payload = Snappy(@)] ELSE p.message

(* receive_message: what the decrypted frame is taken for. A payload that was   *)
(* not compressed does not decompress.                                          *)
Uncompressible(e, p) == compressed[e] /\ p.message.payload > 0 /\ ~p.zip
Decoded(e, p) == IF p.zip /\ ~compressed[e]
                 THEN [p.message EXCEPT !.payload = Snappy(@)] ELSE p.message

(* connect accepts a Hello as the first message, and only then compresses.      *)
Accept(e, m) ==
    IF stage[e] = "active" THEN UNCHANGED << stage, compressed >>
    ELSE IF m.id = kHelloMessageId
    THEN /\ Become(e, "active")
         /\ compressed' = [compressed EXCEPT ![e] = m.version >= kProtocolVersion
                                                    /\ version[e] >= kProtocolVersion]
    ELSE Become(e, "failed") /\ UNCHANGED compressed

ReadBody(e) ==
    /\ Receiving(e) /\ header[e] > 0
    /\ CanRead(e)
    /\ LET u  == Head(link[e])
           p  == u.ct.plain
           ok == /\ u.kind = "frame" /\ u.ct.blocks = BodyBlocks(header[e])
                 /\ MacMatches(e, u) /\ Decrypts(e, u.ct) /\ ~Uncompressible(e, p)
       IN  IF ok
           THEN /\ ingress'  = [ingress EXCEPT ![e] = Append(@, u.ct)]
                /\ dec'      = [dec EXCEPT ![e] = @ + u.ct.blocks]
                /\ received' = [received EXCEPT ![e] = Append(@, Decoded(e, p))]
                /\ Accept(e, Decoded(e, p))
           ELSE Become(e, "failed") /\ UNCHANGED << ingress, dec, received, compressed >>
    /\ header' = [header EXCEPT ![e] = 0]
    /\ Take(e)
    /\ UNCHANGED << version, secrets, egress, enc, cut, faults, sent >>

ReadBroken(e) ==
    /\ Receiving(e) /\ ReadFails(e)
    /\ Become(e, "failed")
    /\ UNCHANGED << version, ciphers, header, compressed, link, cut, faults, sent, received >>

(* The Hello timer of receive_stream_message_with_timeout closes the stream.    *)
HelloTimeout ==
    /\ stage["us"] = "hello"
    /\ Become("us", "timeout")
    /\ cut' = TRUE
    /\ UNCHANGED << version, ciphers, header, compressed, link, faults, sent, received >>

--------------------------------------------------------------------------------
(* The network: a unit arrives altered, or the connection breaks and what was   *)
(* on its way is lost from some unit on.                                        *)

(* Altered bytes of a ciphertext decrypt to an altered plaintext.               *)
Garbled(plain) == IF "message" \in DOMAIN plain
                  THEN [plain EXCEPT !.message.payload = @ + 1]
                  ELSE [plain EXCEPT !.size = @ + 1]

Altered(u) ==
    CASE u.kind = "prefix" -> {[u EXCEPT !.len = 0], [u EXCEPT !.len = 65535]}
      [] u.kind = "sealed" -> {[u EXCEPT !.mac_data = 0]}
      [] u.kind = "frame"  -> {[u EXCEPT !.ct.plain = Garbled(@)], [u EXCEPT !.mac = <<>>]}

Alter(e) ==
    /\ faults < MaxFaults
    /\ CanRead(e)
    /\ \E u \in Altered(Head(link[e])) : link' = [link EXCEPT ![e][1] = u]
    /\ faults' = faults + 1
    /\ UNCHANGED << stage, version, ciphers, header, compressed, cut, sent, received >>

Cut ==
    /\ faults < MaxFaults /\ ~cut
    /\ cut' = TRUE
    /\ \E i \in 0..Len(link["us"]), j \in 0..Len(link["peer"]) :
         link' = [us |-> SubSeq(link["us"], 1, i), peer |-> SubSeq(link["peer"], 1, j)]
    /\ faults' = faults + 1
    /\ UNCHANGED << stage, version, ciphers, header, compressed, sent, received >>

Handshake == SendAuth \/ PeerAcks \/ ReadAckPrefix \/ ReadAck
Receive(e) == ReadHeader(e) \/ ReadBody(e) \/ ReadBroken(e)

Next == \/ Handshake
        \/ \E e \in Ends : SendHello(e) \/ SendNext(e) \/ Receive(e) \/ Alter(e)
        \/ HelloTimeout
        \/ Cut

Spec == Init /\ [][Next]_vars

(* The reads complete when their bytes arrive, and connect goes through its     *)
(* steps. Nothing is assumed of the network or of what is posted.               *)
FairSpec == /\ Spec
            /\ WF_vars(Handshake)
            /\ \A e \in Ends : WF_vars(SendHello(e)) /\ WF_vars(Receive(e))

--------------------------------------------------------------------------------
(* Each end receives what the other one sent, in order and unaltered, whatever  *)
(* happens on the network: frames that do not carry the running MAC, or that    *)
(* are decrypted out of step, end the session (frame_cipher.cpp:234-334).       *)
Fifo == INSTANCE FifoChannel
ChannelSpec == Fifo!Spec

Secured(e) == secrets[e].mac # <<>>

(* No end gives up a connection nothing went wrong with: only a fault, or a     *)
(* frame of exactly kMaxFrameSize bytes, whose length the header cannot hold,   *)
(* makes a read or a write fail.                                                *)
OnlyFaultsBreak ==
    \A e \in Ends :
        (stage[e] = "failed") =>
            \/ faults > 0 \/ cut
            \/ \E i \in DOMAIN sent[Other(e)] :
                   FrameSize(sent[Other(e)][i], compressed[Other(e)]) = kMaxFrameSize

Ended(e) == stage[e] \in {"failed", "refused", "timeout"}

(* Every message that was written arrives, unless its reader ended the session. *)
Delivered ==
    \A e \in Ends, k \in 1..MaxMessages :
        (Len(sent[e]) >= k) ~> (Len(received[Other(e)]) >= k \/ Ended(Other(e)))

================================================================================
