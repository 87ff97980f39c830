-------------------------- MODULE HandshakeProofs --------------------------
(***************************************************************************)
(* Proofs about Handshake, for any number of attempts, messages and        *)
(* faults.                                                                 *)
(***************************************************************************)
EXTENDS Handshake, TLAPS

Keys == Nat \X Nat
FrameTypes == {"empty", "garbage", "hello", "ark", "ack", "message"}
FrameSet == [type : FrameTypes, keys : Keys, n : Nat]
Directions == [frames : Seq(FrameSet), tail : FrameSet, resync : BOOLEAN]

(* What is on its way in d, an undelimited tail included.                  *)
Held(d) == {d.tail} \cup {d.frames[i] : i \in DOMAIN d.frames}

Ack(keys) == Frame("ack", keys, 0)
Ark(keys) == Frame("ark", keys, 0)
Message(keys, n) == Frame("message", keys, n)

Types ==
  /\ c2s \in Directions /\ s2c \in Directions
  /\ attempt \in Nat /\ csent \in Nat /\ crcvd \in Nat
  /\ answer \in Nat /\ ssent \in Nat /\ srcvd \in Nat /\ faults \in Nat
  /\ connecting \in {"no", "hello", "ark"}
  /\ serving \in {"frames", "reset", "hello", "ack"}
  /\ client \in Keys /\ server \in Keys /\ offer \in Keys

Flags == cbound \in BOOLEAN /\ sbound \in BOOLEAN

TypeOK == Types /\ Flags

(* A writer without a failure behind it has delimited all it wrote.        *)
WritersRecover ==
  /\ ~c2s.resync => c2s.tail = Empty
  /\ ~s2c.resync => s2c.tail = Empty

(* Where each side is in its handshake, and what goes with it.             *)
Places ==
  /\ connecting # "no" => client = NoKeys /\ ~c2s.resync
  /\ client = NoKeys => ~cbound /\ csent = 0 /\ crcvd = 0
  /\ cbound => ~c2s.resync
  /\ serving # "frames" => server = NoKeys
  /\ server = NoKeys => ~sbound /\ ssent = 0 /\ srcvd = 0
  /\ sbound => ~s2c.resync

(* Keys come from the attempts and answers made so far; those of a running *)
(* attempt have been used for nothing but its hello and its answer.        *)
KeysAreFresh ==
  /\ client # NoKeys => client[1] = attempt /\ client[2] <= answer
  /\ server[1] <= attempt /\ server[2] <= answer /\ offer[1] <= attempt /\ offer[2] <= answer
  /\ \A f \in Held(c2s) : f.keys[1] <= attempt
  /\ \A f \in Held(s2c) : f.keys[1] <= attempt /\ f.keys[2] <= answer
  /\ connecting # "no" =>
       /\ server[1] < attempt
       /\ \A f \in Held(c2s) : f.type \in {"ack", "message"} => f.keys[1] < attempt
       /\ \A f \in Held(s2c) : f.type = "message" => f.keys[1] < attempt

(* A server that awaits a HostAck has written nothing since its ArkHello.  *)
NothingAfterArk ==
  serving = "ack" =>
    /\ offer # NoKeys /\ ~s2c.resync
    /\ client = offer => Len(s2c.frames) = 0
    /\ \A i \in DOMAIN s2c.frames :
         s2c.frames[i].type = "ark" /\ s2c.frames[i].keys = offer => i = Len(s2c.frames)

(* Behind an unread HostAck come the client's messages and nothing else,   *)
(* and the server has sent nothing in that session.                        *)
MessagesFollowAck ==
  cbound =>
    \A k \in DOMAIN c2s.frames : c2s.frames[k] = Ack(client) =>
      /\ Len(c2s.frames) = k + csent
      /\ \A i \in 1 .. csent : c2s.frames[k + i] = Message(client, i)
      /\ server # client /\ crcvd = 0
      /\ \A f \in Held(s2c) : f.type = "message" => f.keys # client

(* The messages of keys sealed and not opened, in order, and only they.    *)
Carries(d, keys, opened, sealed) ==
  /\ Len(d.frames) = sealed - opened
  /\ \A i \in DOMAIN d.frames : d.frames[i] = Message(keys, opened + i)

Shared == client = server /\ cbound /\ sbound

Clean ==
  Shared => Carries(c2s, client, srcvd, csent) /\ Carries(s2c, server, crcvd, ssent)

(* The client will learn of the end of its session.                        *)
Told ==
  \/ s2c.resync
  \/ \E i \in DOMAIN s2c.frames : ~(s2c.frames[i].type = "message" /\ s2c.frames[i].keys = client)

LostIsTold ==
  cbound /\ ~Shared => Told \/ \E i \in DOMAIN c2s.frames : c2s.frames[i] = Ack(client)

Inv ==
  /\ TypeOK
  /\ WritersRecover /\ Places /\ KeysAreFresh
  /\ NothingAfterArk /\ MessagesFollowAck /\ Clean /\ LostIsTold
----------------------------------------------------------------------------
(* What the writes of framing.rs leave in a direction.                     *)

(* An empty frame and an undecodable one are frames.                       *)
LEMMA SpecialFrames == Empty \in FrameSet /\ Garbage \in FrameSet
  BY DEF Empty, Garbage, Frame, NoKeys, FrameSet, FrameTypes, Keys

(* A direction by its parts.                                               *)
LEMMA Parts ==
  ASSUME NEW d \in Directions
  PROVE  /\ d = [frames |-> d.frames, tail |-> d.tail, resync |-> d.resync]
         /\ d.frames \in Seq(FrameSet) /\ d.tail \in FrameSet /\ d.resync \in BOOLEAN
  BY DEF Directions

(* The elements of a sequence with one more frame.                         *)
LEMMA HeldAppend ==
  ASSUME NEW s \in Seq(FrameSet), NEW f \in FrameSet
  PROVE  /\ Append(s, f) \in Seq(FrameSet)
         /\ Len(Append(s, f)) = Len(s) + 1
         /\ DOMAIN Append(s, f) = 1 .. Len(s) + 1 /\ DOMAIN s = 1 .. Len(s) /\ Len(s) \in Nat
         /\ \A i \in DOMAIN s : Append(s, f)[i] = s[i]
         /\ Append(s, f)[Len(s) + 1] = f
         /\ \A i \in DOMAIN Append(s, f) : i = Len(s) + 1 \/ i \in DOMAIN s
  OBVIOUS

(* Writing a delimiter turns the tail into a frame.                        *)
LEMMA DelimitedFacts ==
  ASSUME NEW d \in Directions
  PROVE  /\ Delimited(d) \in Directions
         /\ Delimited(d).frames = Append(d.frames, d.tail)
         /\ Delimited(d).tail = Empty
         /\ Delimited(d).resync = d.resync
         /\ Held(Delimited(d)) \subseteq Held(d) \cup {Empty}
  <1>1. Append(d.frames, d.tail) \in Seq(FrameSet)
    BY HeldAppend, Parts
  <1>2. Delimited(d) = [frames |-> Append(d.frames, d.tail), tail |-> Empty, resync |-> d.resync]
    <2>1. Delimited(d) \in Directions
      BY Zenon, <1>1, SpecialFrames DEF Delimited, Directions
    <2>2. Delimited(d).frames = Append(d.frames, d.tail) /\ Delimited(d).tail = Empty
          /\ Delimited(d).resync = d.resync
      BY DEF Delimited, Directions
    <2>3. QED
      BY <2>1, <2>2, Parts
  <1>3. \A i \in DOMAIN Append(d.frames, d.tail) :
          \/ Append(d.frames, d.tail)[i] = d.tail
          \/ i \in DOMAIN d.frames /\ Append(d.frames, d.tail)[i] = d.frames[i]
    BY HeldAppend, Parts
  <1>4. QED
    BY <1>1, <1>2, <1>3, SpecialFrames DEF Held, Directions

(* The delimiter after a failed write ends what that write left.           *)
LEMMA RecoveredFacts ==
  ASSUME NEW d \in Directions
  PROVE  /\ Recovered(d) \in Directions
         /\ Recovered(d).resync = d.resync
         /\ (~d.resync => d.tail = Empty) => Recovered(d).tail = Empty
         /\ ~d.resync => Recovered(d) = d
         /\ Held(Recovered(d)) \subseteq Held(d) \cup {Empty}
  BY DelimitedFacts DEF Recovered

(* Writing content without a delimiter adds to the tail only.              *)
LEMMA ContentFacts ==
  ASSUME NEW d \in Directions, NEW f \in FrameSet
  PROVE  /\ WithContent(d, f) \in Directions
         /\ WithContent(d, f).frames = d.frames
         /\ WithContent(d, f).resync = d.resync
         /\ d.tail = Empty => WithContent(d, f).tail = f
         /\ Held(WithContent(d, f)) \subseteq Held(d) \cup {f, Garbage}
  <1>1. WithContent(d, f) = [frames |-> d.frames, resync |-> d.resync,
                             tail |-> IF d.tail = Empty THEN f ELSE Garbage]
    <2>1. WithContent(d, f) \in Directions
      BY SpecialFrames DEF WithContent, Directions
    <2>2. /\ WithContent(d, f).frames = d.frames /\ WithContent(d, f).resync = d.resync
          /\ WithContent(d, f).tail = IF d.tail = Empty THEN f ELSE Garbage
      BY DEF WithContent, Directions
    <2>3. QED
      BY <2>1, <2>2, Parts
  <1>2. QED
    BY <1>1, SpecialFrames DEF Held, Directions

(* Any write of f, complete or not, turns d into such an e.                *)
Grown(d, e, f) ==
  /\ e \in Directions
  /\ Held(e) \subseteq Held(d) \cup {f, Empty, Garbage}
  /\ ~e.resync => e.tail = Empty

(* f is the last frame of e.                                               *)
EndsWith(e, f) == Len(e.frames) > 0 /\ e.frames[Len(e.frames)] = f

(* The resync flag has no part in what is held.                            *)
LEMMA Resynced ==
  ASSUME NEW d \in Directions, NEW b \in BOOLEAN
  PROVE  /\ [d EXCEPT !.resync = b] \in Directions
         /\ [d EXCEPT !.resync = b].frames = d.frames
         /\ [d EXCEPT !.resync = b].tail = d.tail
         /\ [d EXCEPT !.resync = b].resync = b
         /\ Held([d EXCEPT !.resync = b]) = Held(d)
  <1>1. /\ [d EXCEPT !.resync = b] \in Directions
        /\ [d EXCEPT !.resync = b].frames = d.frames
        /\ [d EXCEPT !.resync = b].tail = d.tail
        /\ [d EXCEPT !.resync = b].resync = b
    BY DEF Directions
  <1>2. QED
    BY <1>1 DEF Held

(* A complete write ends in its frame, behind what was there and at most   *)
(* an empty frame.                                                         *)
LEMMA WrittenFacts ==
  ASSUME NEW d \in Directions, NEW f \in FrameSet, ~d.resync => d.tail = Empty
  PROVE  /\ Grown(d, Written(d, f), f)
         /\ ~Written(d, f).resync
         /\ EndsWith(Written(d, f), f)
         /\ \A i \in DOMAIN Written(d, f).frames :
              i # Len(Written(d, f).frames) => Written(d, f).frames[i] \in Held(d) \cup {Empty}
         /\ ~d.resync => Written(d, f).frames = Append(d.frames, f)
  <1> DEFINE r == Recovered(d)  w == WithContent(r, f)  e == Delimited(w)
  <1>1. /\ r \in Directions /\ r.tail = Empty /\ Held(r) \subseteq Held(d) \cup {Empty}
        /\ ~d.resync => r.frames = d.frames
    BY RecoveredFacts
  <1> HIDE DEF r
  <1>2. /\ w \in Directions /\ w.frames = r.frames /\ w.tail = f
        /\ Held(w) \subseteq Held(r) \cup {f, Garbage}
    BY <1>1, ContentFacts
  <1> HIDE DEF w
  <1>3. /\ e \in Directions /\ e.tail = Empty /\ e.frames = Append(w.frames, w.tail)
        /\ Held(e) \subseteq Held(w) \cup {Empty}
    BY Zenon, <1>2, DelimitedFacts
  <1>4. w.frames \in Seq(FrameSet)
    BY <1>2, Parts
  <1> HIDE DEF e
  <1>5. Written(d, f) = [e EXCEPT !.resync = FALSE]
    BY DEF Written, e, w, r
  <1>6. EndsWith(Written(d, f), f)
    BY <1>2, <1>3, <1>4, <1>5, Resynced, HeldAppend DEF EndsWith
  <1>7. \A i \in DOMAIN e.frames : i # Len(e.frames) => e.frames[i] \in Held(r)
    BY <1>2, <1>3, <1>4, HeldAppend DEF Held
  <1>8. /\ Written(d, f) \in Directions /\ ~Written(d, f).resync
        /\ Written(d, f).frames = e.frames /\ Written(d, f).tail = e.tail
        /\ Held(Written(d, f)) = Held(e)
    BY ZenonT(30), <1>3, <1>5, Resynced
  <1>9. Held(e) \subseteq Held(d) \cup {f, Empty, Garbage}
    BY ZenonT(30), <1>1, <1>2, <1>3
  <1>10. Grown(d, Written(d, f), f)
    BY SMTT(30), <1>3, <1>8, <1>9 DEF Grown
  <1>11. /\ \A i \in DOMAIN Written(d, f).frames :
              i # Len(Written(d, f).frames) => Written(d, f).frames[i] \in Held(d) \cup {Empty}
         /\ ~d.resync => Written(d, f).frames = Append(d.frames, f)
    BY SMTT(30), <1>1, <1>2, <1>3, <1>7, <1>8
  <1>12. QED
    BY <1>6, <1>8, <1>10, <1>11

(* A complete signal ends in an empty frame.                               *)
LEMMA SignalledFacts ==
  ASSUME NEW d \in Directions, ~d.resync => d.tail = Empty
  PROVE  /\ Grown(d, Signalled(d), Empty)
         /\ ~Signalled(d).resync
         /\ EndsWith(Signalled(d), Empty)
  <1> DEFINE r == Recovered(d)  e == Delimited(r)
  <1>1. r \in Directions /\ r.tail = Empty /\ Held(r) \subseteq Held(d) \cup {Empty}
    BY RecoveredFacts
  <1> HIDE DEF r
  <1>2. /\ e \in Directions /\ e.tail = Empty /\ e.frames = Append(r.frames, r.tail)
        /\ Held(e) \subseteq Held(r) \cup {Empty}
    BY <1>1, DelimitedFacts
  <1>3. r.frames \in Seq(FrameSet)
    BY <1>1, Parts
  <1> HIDE DEF e
  <1>4. Signalled(d) = [e EXCEPT !.resync = FALSE]
    BY DEF Signalled, e, r
  <1>5. EndsWith(Signalled(d), Empty)
    BY <1>1, <1>2, <1>3, <1>4, Resynced, HeldAppend, SpecialFrames DEF EndsWith
  <1>6. QED
    BY ZenonT(30), <1>1, <1>2, <1>4, <1>5, Resynced DEF Grown

(* A complete reset adds empty frames only.                                *)
LEMMA WasResetFacts ==
  ASSUME NEW d \in Directions
  PROVE  Grown(d, WasReset(d), Empty) /\ ~WasReset(d).resync
  <1> DEFINE r == Delimited(d)  e == Delimited(r)
  <1>1. r \in Directions /\ Held(r) \subseteq Held(d) \cup {Empty}
    BY DelimitedFacts
  <1> HIDE DEF r
  <1>2. e \in Directions /\ e.tail = Empty /\ Held(e) \subseteq Held(r) \cup {Empty}
    BY <1>1, DelimitedFacts
  <1> HIDE DEF e
  <1>3. WasReset(d) = [e EXCEPT !.resync = FALSE]
    BY DEF WasReset, e, r
  <1>4. QED
    BY Zenon, <1>1, <1>2, <1>3, Resynced DEF Grown

(* A write that fails leaves any part of its frame, and its writer         *)
(* resyncs.                                                                *)
LEMMA FailedFacts ==
  ASSUME NEW d \in Directions, NEW f \in FrameSet, NEW ds \in SUBSET Directions,
         \A x \in ds : Held(x) \subseteq Held(d) \cup {f, Empty, Garbage},
         NEW e \in Failed(ds)
  PROVE  Grown(d, e, f) /\ e.resync
  <1>1. PICK x \in ds : e = [x EXCEPT !.resync = TRUE]
    BY DEF Failed
  <1>2. QED
    BY Zenon, <1>1, Resynced DEF Grown

(* So for a frame.                                                         *)
LEMMA FailedWriteFacts ==
  ASSUME NEW d \in Directions, NEW f \in FrameSet, ~d.resync => d.tail = Empty,
         NEW e \in FailedWrites(d, f)
  PROVE  Grown(d, e, f) /\ e.resync
  <1> DEFINE r == Recovered(d)
  <1>1. r \in Directions /\ Held(r) \subseteq Held(d) \cup {Empty}
    BY RecoveredFacts
  <1> HIDE DEF r
  <1>2. \A g \in {f, Garbage} : /\ WithContent(r, g) \in Directions
                                /\ Held(WithContent(r, g)) \subseteq Held(r) \cup {g, Garbage}
    BY Zenon, <1>1, ContentFacts, SpecialFrames
  <1>3. Written(d, f) \in Directions /\ Held(Written(d, f)) \subseteq Held(d) \cup {f, Empty, Garbage}
    BY WrittenFacts DEF Grown
  <1> DEFINE ds == {d, r, Written(d, f)} \cup {WithContent(r, g) : g \in {f, Garbage}}
  <1>4. ds \in SUBSET Directions
    BY <1>1, <1>2, <1>3
  <1>5. \A x \in ds : Held(x) \subseteq Held(d) \cup {f, Empty, Garbage}
    BY <1>1, <1>2, <1>3
  <1>6. e \in Failed(ds)
    BY DEF FailedWrites, r
  <1> HIDE DEF ds
  <1>7. QED
    BY <1>4, <1>5, <1>6, FailedFacts

(* So for a signal.                                                        *)
LEMMA FailedSignalFacts ==
  ASSUME NEW d \in Directions, ~d.resync => d.tail = Empty, NEW e \in FailedSignals(d)
  PROVE  Grown(d, e, Empty) /\ e.resync
  <1> DEFINE ds == {d, Recovered(d), Signalled(d)}
  <1>1. ds \in SUBSET Directions /\ \A x \in ds : Held(x) \subseteq Held(d) \cup {Empty, Empty, Garbage}
    BY RecoveredFacts, SignalledFacts DEF Grown
  <1>2. e \in Failed(ds)
    BY DEF FailedSignals
  <1> HIDE DEF ds
  <1>3. QED
    BY <1>1, <1>2, FailedFacts, SpecialFrames

(* So for a reset.                                                         *)
LEMMA FailedResetFacts ==
  ASSUME NEW d \in Directions, NEW e \in FailedResets(d)
  PROVE  Grown(d, e, Empty) /\ e.resync
  <1> DEFINE ds == {d, Delimited(d), WasReset(d)}
  <1>1. ds \in SUBSET Directions /\ \A x \in ds : Held(x) \subseteq Held(d) \cup {Empty, Empty, Garbage}
    BY DelimitedFacts, WasResetFacts DEF Grown
  <1>2. e \in Failed(ds)
    BY DEF FailedResets
  <1> HIDE DEF ds
  <1>3. QED
    BY <1>1, <1>2, FailedFacts, SpecialFrames

(* A failed packet of the server tells its client, or leaves that to the   *)
(* next output.                                                            *)
LEMMA ServerFailureFacts ==
  ASSUME NEW d \in Directions, NEW f \in FrameSet, ~d.resync => d.tail = Empty,
         NEW e \in ServerFailures(d, f)
  PROVE  Grown(d, e, f) /\ (e.resync \/ EndsWith(e, Empty))
  <1>1. PICK x \in FailedWrites(d, f) : e \in {x, Signalled(x)} \cup FailedSignals(x)
    BY DEF ServerFailures
  <1>2. Grown(d, x, f) /\ x.resync
    BY FailedWriteFacts
  <1>3. CASE e = x
    BY <1>2, <1>3
  <1>4. CASE e = Signalled(x)
    BY <1>2, <1>4, SignalledFacts DEF Grown
  <1>5. CASE e \in FailedSignals(x)
    BY <1>2, <1>5, FailedSignalFacts DEF Grown
  <1>6. QED
    BY <1>1, <1>3, <1>4, <1>5

(* Taking the first frame of a direction shifts the others.                *)
LEMMA PopFacts ==
  ASSUME NEW d \in Directions, d.frames # <<>>, NEW e, e = [d EXCEPT !.frames = Tail(@)]
  PROVE  /\ e \in Directions /\ e.tail = d.tail /\ e.resync = d.resync /\ e.frames = Tail(d.frames)
         /\ Held(e) \subseteq Held(d)
         /\ Len(e.frames) = Len(d.frames) - 1 /\ Len(d.frames) \in Nat
         /\ DOMAIN e.frames = 1 .. Len(e.frames) /\ DOMAIN d.frames = 1 .. Len(d.frames)
         /\ \A i \in DOMAIN e.frames : i + 1 \in DOMAIN d.frames /\ e.frames[i] = d.frames[i + 1]
         /\ \A i \in DOMAIN d.frames :
              i # 1 => i - 1 \in DOMAIN e.frames /\ e.frames[i - 1] = d.frames[i]
         /\ 1 \in DOMAIN d.frames /\ Head(d.frames) = d.frames[1]
         /\ Head(d.frames) \in Held(d) /\ Head(d.frames) \in FrameSet
  <1>1. d.frames \in Seq(FrameSet)
    BY Parts
  <1>a. Tail(d.frames) \in Seq(FrameSet)
    BY <1>1
  <1>2. /\ e \in Directions /\ e.tail = d.tail /\ e.resync = d.resync /\ e.frames = Tail(d.frames)
    BY Zenon, <1>a DEF Directions
  <1>3. /\ Len(e.frames) = Len(d.frames) - 1 /\ Len(d.frames) \in Nat
        /\ DOMAIN e.frames = 1 .. Len(e.frames) /\ DOMAIN d.frames = 1 .. Len(d.frames)
        /\ 1 \in DOMAIN d.frames /\ Head(d.frames) = d.frames[1] /\ Head(d.frames) \in FrameSet
    BY <1>1, <1>2
  <1>4. \A i \in DOMAIN e.frames : i + 1 \in DOMAIN d.frames /\ e.frames[i] = d.frames[i + 1]
    BY <1>1, <1>2
  <1>5. \A i \in DOMAIN d.frames : i # 1 => i - 1 \in DOMAIN e.frames /\ e.frames[i - 1] = d.frames[i]
    BY <1>1, <1>2
  <1>6. Head(d.frames) \in Held(d) /\ Held(e) \subseteq Held(d)
    BY <1>2, <1>3, <1>4 DEF Held
  <1>7. QED
    BY Zenon, <1>2, <1>3, <1>4, <1>5, <1>6

(* So for what the server reads.                                           *)
LEMMA TakeC2sFacts ==
  ASSUME TypeOK, TakeC2s
  PROVE  /\ c2s' \in Directions /\ c2s'.tail = c2s.tail /\ c2s'.resync = c2s.resync
         /\ Held(c2s)' \subseteq Held(c2s)
         /\ Len(c2s'.frames) = Len(c2s.frames) - 1 /\ Len(c2s.frames) \in Nat
         /\ DOMAIN c2s'.frames = 1 .. Len(c2s'.frames) /\ DOMAIN c2s.frames = 1 .. Len(c2s.frames)
         /\ \A i \in DOMAIN c2s'.frames :
              i + 1 \in DOMAIN c2s.frames /\ c2s'.frames[i] = c2s.frames[i + 1]
         /\ \A i \in DOMAIN c2s.frames :
              i # 1 => i - 1 \in DOMAIN c2s'.frames /\ c2s'.frames[i - 1] = c2s.frames[i]
         /\ 1 \in DOMAIN c2s.frames /\ Head(c2s.frames) = c2s.frames[1]
         /\ Head(c2s.frames) \in Held(c2s) /\ Head(c2s.frames) \in FrameSet
  <1>1. c2s \in Directions /\ c2s.frames # <<>> /\ c2s' = [c2s EXCEPT !.frames = Tail(@)]
    BY Zenon DEF TypeOK, Types, TakeC2s
  <1>2. QED
    BY <1>1, PopFacts

(* So for what the client reads.                                           *)
LEMMA TakeS2cFacts ==
  ASSUME TypeOK, s2c.frames # <<>>, TakeS2c
  PROVE  /\ s2c' \in Directions /\ s2c'.tail = s2c.tail /\ s2c'.resync = s2c.resync
         /\ Held(s2c)' \subseteq Held(s2c)
         /\ Len(s2c'.frames) = Len(s2c.frames) - 1 /\ Len(s2c.frames) \in Nat
         /\ DOMAIN s2c'.frames = 1 .. Len(s2c'.frames) /\ DOMAIN s2c.frames = 1 .. Len(s2c.frames)
         /\ \A i \in DOMAIN s2c'.frames :
              i + 1 \in DOMAIN s2c.frames /\ s2c'.frames[i] = s2c.frames[i + 1]
         /\ \A i \in DOMAIN s2c.frames :
              i # 1 => i - 1 \in DOMAIN s2c'.frames /\ s2c'.frames[i - 1] = s2c.frames[i]
         /\ 1 \in DOMAIN s2c.frames /\ Head(s2c.frames) = s2c.frames[1]
         /\ Head(s2c.frames) \in Held(s2c) /\ Head(s2c.frames) \in FrameSet
  <1>1. s2c \in Directions /\ s2c.frames # <<>> /\ s2c' = [s2c EXCEPT !.frames = Tail(@)]
    BY Zenon DEF TypeOK, Types, TakeS2c
  <1>2. QED
    BY <1>1, PopFacts
----------------------------------------------------------------------------
(* What the actions write.                                                 *)

(* What the two sides write are frames.                                    *)
LEMMA FramesAreFrames ==
  ASSUME NEW k \in Keys, NEW n \in Nat
  PROVE  /\ Frame("hello", k, n) \in FrameSet /\ Frame("ark", k, n) \in FrameSet
         /\ Frame("ack", k, n) \in FrameSet /\ Frame("message", k, n) \in FrameSet
  BY DEF Frame, FrameSet, FrameTypes

(* A frame by its parts.                                                   *)
LEMMA FrameParts ==
  ASSUME NEW f \in FrameSet
  PROVE  f.type \in FrameTypes /\ f.keys \in Keys /\ f.n \in Nat
  BY DEF FrameSet

(* What Connect leaves on its way to the server.                           *)
LEMMA ConnectWrites ==
  ASSUME TypeOK, WritersRecover, Connect
  PROVE  Grown(c2s, c2s', Empty) /\ (connecting' # "no" => ~c2s'.resync)
  <1>1. CASE c2s' = WasReset(c2s)
    BY <1>1, WasResetFacts DEF TypeOK, Types
  <1>2. CASE c2s' \in FailedResets(c2s) /\ connecting' = "no"
    BY <1>2, FailedResetFacts DEF TypeOK, Types
  <1>3. QED
    BY <1>1, <1>2 DEF Connect

(* What SendHello leaves.                                                  *)
LEMMA HelloWrites ==
  ASSUME TypeOK, WritersRecover, SendHello
  PROVE  /\ Grown(c2s, c2s', Frame("hello", <<attempt, 0>>, 0))
         /\ connecting' # "no" => ~c2s'.resync
  <1> DEFINE hello == Frame("hello", <<attempt, 0>>, 0)
  <1>1. hello \in FrameSet
    BY FramesAreFrames DEF TypeOK, Types, Keys
  <1>2. \/ c2s' = Written(c2s, hello)
        \/ c2s' \in FailedWrites(c2s, hello) /\ connecting' = "no"
    BY DEF SendHello
  <1> HIDE DEF hello
  <1>3. CASE c2s' = Written(c2s, hello)
    BY <1>1, <1>3, WrittenFacts DEF TypeOK, Types, WritersRecover, hello
  <1>4. CASE c2s' \in FailedWrites(c2s, hello) /\ connecting' = "no"
    BY <1>1, <1>4, FailedWriteFacts DEF TypeOK, Types, WritersRecover, hello
  <1>5. QED
    BY <1>2, <1>3, <1>4

(* What TakeArk leaves; a client that goes on to bind has written its      *)
(* HostAck whole.                                                          *)
LEMMA AckWrites ==
  ASSUME TypeOK, WritersRecover, Places, TakeArk, NEW ack, ack = Ack(Head(s2c.frames).keys)
  PROVE  /\ Grown(c2s, c2s', ack)
         /\ \/ UNCHANGED <<client, cbound>>
            \/ /\ client' = Head(s2c.frames).keys /\ cbound' = TRUE /\ ~c2s'.resync
               /\ c2s'.frames = Append(c2s.frames, ack)
  <1>1. Head(s2c.frames).keys \in Keys /\ ack \in FrameSet
    BY TakeS2cFacts, FrameParts, FramesAreFrames DEF TakeArk, Ack
  <1>2. \/ c2s' = Written(c2s, ack) /\ client' = Head(s2c.frames).keys /\ cbound' = TRUE
        \/ (c2s' \in FailedWrites(c2s, ack) \/ c2s' = c2s) /\ UNCHANGED <<client, cbound>>
    BY DEF TakeArk, Ack
  <1>3. ~c2s.resync
    BY DEF Places, TakeArk
  <1>4. CASE c2s' = Written(c2s, ack) /\ client' = Head(s2c.frames).keys /\ cbound' = TRUE
    BY Zenon, <1>1, <1>3, <1>4, WrittenFacts DEF TypeOK, Types, WritersRecover
  <1>5. CASE c2s' \in FailedWrites(c2s, ack) /\ UNCHANGED <<client, cbound>>
    BY <1>1, <1>5, FailedWriteFacts DEF TypeOK, Types, WritersRecover
  <1>6. CASE c2s' = c2s /\ UNCHANGED <<client, cbound>>
    BY <1>6 DEF Grown, TypeOK, Types, WritersRecover
  <1>7. QED
    BY Zenon, <1>2, <1>4, <1>5, <1>6

(* What ClientSend leaves; a client that stays bound has written its       *)
(* message whole.                                                          *)
LEMMA ClientMessageWrites ==
  ASSUME TypeOK, WritersRecover, Places, ClientSend
  PROVE  /\ Grown(c2s, c2s', Message(client, csent + 1))
         /\ \/ cbound' = FALSE
            \/ /\ cbound' = cbound /\ ~c2s'.resync
               /\ c2s'.frames = Append(c2s.frames, Message(client, csent + 1))
  <1> DEFINE message == Message(client, csent + 1)
  <1>1. message \in FrameSet
    BY FramesAreFrames DEF TypeOK, Types, Message
  <1>2. \/ c2s' = Written(c2s, message) /\ cbound' = cbound
        \/ c2s' \in FailedWrites(c2s, message) /\ cbound' = FALSE
    BY Zenon DEF ClientSend, Message, Unbind
  <1>3. ~c2s.resync
    BY DEF Places, ClientSend
  <1> HIDE DEF message
  <1>4. CASE c2s' = Written(c2s, message) /\ cbound' = cbound
    BY <1>1, <1>3, <1>4, WrittenFacts DEF TypeOK, Types, WritersRecover, message
  <1>5. CASE c2s' \in FailedWrites(c2s, message) /\ cbound' = FALSE
    BY <1>1, <1>5, FailedWriteFacts DEF TypeOK, Types, WritersRecover, message
  <1>6. QED
    BY Zenon, <1>2, <1>4, <1>5

(* What the notice of a dropped session leaves on its way to the client.   *)
LEMMA DropWrites ==
  ASSUME TypeOK, WritersRecover, s2c' \in {Signalled(s2c)} \cup FailedSignals(s2c)
  PROVE  Grown(s2c, s2c', Empty) /\ (s2c'.resync \/ EndsWith(s2c', Empty))
  <1>1. CASE s2c' = Signalled(s2c)
    BY <1>1, SignalledFacts DEF TypeOK, Types, WritersRecover
  <1>2. CASE s2c' \in FailedSignals(s2c)
    BY Zenon, <1>2, FailedSignalFacts DEF TypeOK, Types, WritersRecover
  <1>3. QED
    BY <1>1, <1>2

(* What TakeHello leaves; a server that awaits a HostAck has written its   *)
(* ArkHello whole.                                                         *)
LEMMA ArkWrites ==
  ASSUME TypeOK, WritersRecover, TakeHello,
         NEW keys, keys = <<Head(c2s.frames).keys[1], answer + 1>>
  PROVE  /\ keys \in Keys
         /\ Grown(s2c, s2c', Ark(keys))
         /\ s2c'.resync \/ EndsWith(s2c', Empty) \/ EndsWith(s2c', Ark(keys))
         /\ \/ serving' = "frames" /\ UNCHANGED offer
            \/ /\ serving' = "ack" /\ offer' = keys /\ ~s2c'.resync
               /\ \A i \in DOMAIN s2c'.frames :
                    i # Len(s2c'.frames) => s2c'.frames[i] \in Held(s2c) \cup {Empty}
  <1>1. Head(c2s.frames).keys \in Keys
    BY TakeC2sFacts, FrameParts DEF TakeHello
  <1>2. keys \in Keys /\ Ark(keys) \in FrameSet
    BY <1>1, FramesAreFrames DEF TypeOK, Types, Keys, Ark
  <1>3. \/ s2c' = Written(s2c, Ark(keys)) /\ serving' = "ack" /\ offer' = keys
        \/ s2c' \in ServerFailures(s2c, Ark(keys)) /\ serving' = "frames" /\ UNCHANGED offer
    BY Zenon DEF TakeHello, Ark
  <1>4. CASE s2c' = Written(s2c, Ark(keys)) /\ serving' = "ack" /\ offer' = keys
    BY Zenon, <1>2, <1>4, WrittenFacts DEF TypeOK, Types, WritersRecover
  <1>5. CASE s2c' \in ServerFailures(s2c, Ark(keys)) /\ serving' = "frames" /\ UNCHANGED offer
    BY <1>2, <1>5, ServerFailureFacts DEF TypeOK, Types, WritersRecover
  <1>6. QED
    BY Zenon, <1>2, <1>3, <1>4, <1>5

(* What ServerSend leaves; a server that stays bound has written its       *)
(* message whole.                                                          *)
LEMMA ServerMessageWrites ==
  ASSUME TypeOK, WritersRecover, Places, ServerSend
  PROVE  /\ Grown(s2c, s2c', Message(server, ssent + 1))
         /\ s2c'.resync \/ EndsWith(s2c', Empty) \/ EndsWith(s2c', Message(server, ssent + 1))
         /\ \/ sbound' = FALSE /\ (s2c'.resync \/ EndsWith(s2c', Empty))
            \/ /\ sbound' = sbound /\ ~s2c'.resync
               /\ s2c'.frames = Append(s2c.frames, Message(server, ssent + 1))
  <1> DEFINE message == Message(server, ssent + 1)
  <1>1. message \in FrameSet
    BY FramesAreFrames DEF TypeOK, Types, Message
  <1>2. \/ s2c' = Written(s2c, message) /\ sbound' = sbound
        \/ s2c' \in ServerFailures(s2c, message) /\ sbound' = FALSE
    BY Zenon DEF ServerSend, Message
  <1>3. ~s2c.resync
    BY Zenon DEF Places, ServerSend
  <1> HIDE DEF message
  <1>4. CASE s2c' = Written(s2c, message) /\ sbound' = sbound
    BY <1>1, <1>3, <1>4, WrittenFacts DEF TypeOK, Types, WritersRecover, message
  <1>5. CASE s2c' \in ServerFailures(s2c, message) /\ sbound' = FALSE
    BY <1>1, <1>5, ServerFailureFacts DEF TypeOK, Types, WritersRecover, message
  <1>6. QED
    BY Zenon, <1>2, <1>4, <1>5

(* A refusal writes the notice, or fails to.                               *)
LEMMA Drops == SendDropped => s2c' \in {Signalled(s2c)} \cup FailedSignals(s2c)
  BY DEF SendDropped

(* Attempts count from 1.                                                  *)
LEMMA ArkNamesAttempt ==
  ASSUME Inv, TakeArk
  PROVE  /\ Head(s2c.frames).keys \in Keys /\ Head(s2c.frames).keys # NoKeys
         /\ Head(s2c.frames).keys[1] = attempt /\ attempt > server[1]
         /\ Head(s2c.frames).keys[2] <= answer
         /\ Head(s2c.frames).type = "ark"
  <1>1. Head(s2c.frames) \in FrameSet /\ Head(s2c.frames) \in Held(s2c)
    BY Zenon, TakeS2cFacts DEF Inv, TakeArk
  <1>2. attempt > server[1] /\ server[1] \in Nat /\ attempt \in Nat
    BY Zenon DEF Inv, TypeOK, Types, KeysAreFresh, TakeArk, Keys
  <1>3. /\ Head(s2c.frames).keys \in Keys /\ Head(s2c.frames).keys[2] <= answer
        /\ Head(s2c.frames).keys[1] = attempt /\ Head(s2c.frames).type = "ark"
    BY SMTT(30), <1>1, FrameParts DEF Inv, KeysAreFresh, TakeArk, MyArk
  <1>4. QED
    BY <1>2, <1>3 DEF NoKeys

(* Every step keeps the flags typed.                                       *)
LEMMA StepKeepsFlags ==
  ASSUME Inv, Next
  PROVE  Flags'
  BY Zenon DEF Inv, TypeOK, Flags, Next, ClientStep, ServerStep, Connect, ClientEnds, SendHello,
     SkipStale, TakeArk, ConnectTimeout, ClientDisconnect, ClientReadFails, Unbind, ClientSend,
     ClientRecv,
     ServerEnds, ServerReset, StartHandshake, ServerMessage, ServerRefuses, SkipReset, TakeHello,
     Restart, TakeAck, HandshakeFails, HandshakeTimeout, ServerSend, Disconnect, SenderDisconnect,
     clientVars, serverVars

(* The types and where each side is.                                       *)
LEMMA StepKeepsPlaces ==
  ASSUME Inv, Next
  PROVE  Types' /\ WritersRecover' /\ Places'
  <1> USE DEF Inv
  <1>0. NoKeys \in Keys
    BY DEF NoKeys, Keys
  <1>1. CASE Connect
    <2>1. /\ c2s' \in Directions /\ (~c2s'.resync => c2s'.tail = Empty)
          /\ connecting' # "no" => ~c2s'.resync
      BY <1>1, ConnectWrites DEF Grown
    <2>2. /\ UNCHANGED <<s2c, answer, serving, offer, server, sbound, ssent, srcvd>>
          /\ attempt' = attempt + 1 /\ client' = NoKeys /\ ~cbound' /\ csent' = 0 /\ crcvd' = 0
          /\ connecting' \in {"no", "hello"} /\ (faults' = faults \/ faults' = faults + 1)
      BY Zenon, <1>1 DEF Connect, ClientEnds, serverVars, Fault
    <2>3. QED
      BY <1>0, <2>1, <2>2 DEF TypeOK, Types, WritersRecover, Places
  <1>2. CASE SendHello
    BY <1>2, HelloWrites
       DEF SendHello, serverVars, Fault, TypeOK, Types, WritersRecover, Places, Grown
  <1>3. CASE SkipStale
    BY Zenon, <1>3, TakeS2cFacts
       DEF SkipStale, serverVars, clientVars, TypeOK, Types, WritersRecover, Places
  <1>4. CASE TakeArk
    <2>1. s2c' \in Directions /\ s2c'.tail = s2c.tail /\ s2c'.resync = s2c.resync
      BY <1>4, TakeS2cFacts DEF TakeArk
    <2>2. /\ c2s' \in Directions /\ (~c2s'.resync => c2s'.tail = Empty)
          /\ \/ UNCHANGED <<client, cbound>>
             \/ client' = Head(s2c.frames).keys /\ cbound' = TRUE /\ ~c2s'.resync
      BY Zenon, <1>4, AckWrites DEF Grown
    <2>3. /\ UNCHANGED <<attempt, csent, crcvd, answer, serving, offer, server, sbound, ssent, srcvd>>
          /\ connecting' = "no" /\ client = NoKeys
          /\ faults' = faults \/ faults' = faults + 1
      BY Zenon, <1>4 DEF TakeArk, serverVars, Fault, Places
    <2>4. QED
      BY <1>4, <2>1, <2>2, <2>3, ArkNamesAttempt DEF TypeOK, Types, WritersRecover, Places
  <1>5. CASE ConnectTimeout
    BY <1>5 DEF ConnectTimeout, serverVars, Fault, TypeOK, Types, WritersRecover, Places
  <1>6. CASE ClientDisconnect \/ ClientReadFails
    BY <1>0, <1>6 DEF ClientDisconnect, ClientReadFails, ClientEnds, serverVars, Fault, TypeOK, Types,
       WritersRecover, Places
  <1>7. CASE ClientSend
    <2>1. /\ c2s' \in Directions /\ (~c2s'.resync => c2s'.tail = Empty)
          /\ cbound' => ~c2s'.resync
      BY Zenon, <1>7, ClientMessageWrites DEF Grown
    <2>2. /\ UNCHANGED <<s2c, attempt, connecting, client, crcvd>>
          /\ UNCHANGED <<answer, serving, offer, server, sbound, ssent, srcvd>>
          /\ client # NoKeys /\ csent' = csent + 1 /\ (faults' = faults \/ faults' = faults + 1)
      BY Zenon, <1>7 DEF ClientSend, serverVars, Fault
    <2>3. QED
      BY <2>1, <2>2 DEF TypeOK, Types, WritersRecover, Places
  <1>8. CASE ClientRecv
    BY <1>0, <1>8, TakeS2cFacts
       DEF ClientRecv, ClientEnds, serverVars, TypeOK, Types, WritersRecover, Places
  <1>9. CASE ServerReset
    BY Zenon, <1>0, <1>9, TakeC2sFacts
       DEF ServerReset, ServerEnds, clientVars, TypeOK, Types, WritersRecover, Places
  <1>10. CASE StartHandshake
    BY Zenon, <1>10 DEF StartHandshake, clientVars, TypeOK, Types, WritersRecover, Places
  <1>11. CASE ServerMessage
    BY <1>11, TakeC2sFacts
       DEF ServerMessage, ServerAccepts, clientVars, TypeOK, Types, WritersRecover, Places
  <1>12. CASE ServerRefuses
    <2>1. c2s' \in Directions /\ c2s'.tail = c2s.tail /\ c2s'.resync = c2s.resync
      BY <1>12, TakeC2sFacts DEF ServerRefuses
    <2>2. s2c' \in Directions /\ (~s2c'.resync => s2c'.tail = Empty)
      BY <1>12, Drops, DropWrites DEF ServerRefuses, Grown
    <2>3. /\ UNCHANGED <<attempt, connecting, client, cbound, csent, crcvd, answer, serving, offer>>
          /\ server' = NoKeys /\ ~sbound' /\ ssent' = 0 /\ srcvd' = 0
          /\ faults' = faults \/ faults' = faults + 1
      BY Zenon, <1>12 DEF ServerRefuses, SendDropped, ServerEnds, clientVars, Fault
    <2>4. QED
      BY <1>0, <2>1, <2>2, <2>3 DEF TypeOK, Types, WritersRecover, Places
  <1>13. CASE SkipReset
    BY Zenon, <1>13, TakeC2sFacts
       DEF SkipReset, clientVars, serverVars, TypeOK, Types, WritersRecover, Places
  <1>14. CASE TakeHello
    <2>1. c2s' \in Directions /\ c2s'.tail = c2s.tail /\ c2s'.resync = c2s.resync
      BY <1>14, TakeC2sFacts DEF TakeHello
    <2>2. /\ s2c' \in Directions /\ (~s2c'.resync => s2c'.tail = Empty)
          /\ serving' \in {"frames", "ack"} /\ offer' \in Keys
      BY Zenon, <1>14, ArkWrites DEF Grown, TypeOK, Types
    <2>3. /\ UNCHANGED <<attempt, connecting, client, cbound, csent, crcvd, server, sbound, ssent, srcvd>>
          /\ answer' = answer + 1 /\ serving = "hello"
          /\ faults' = faults \/ faults' = faults + 1
      BY Zenon, <1>14 DEF TakeHello, clientVars, Fault
    <2>4. QED
      BY <2>1, <2>2, <2>3 DEF TypeOK, Types, WritersRecover, Places
  <1>15. CASE Restart
    BY Zenon, <1>15, TakeC2sFacts DEF Restart, clientVars, TypeOK, Types, WritersRecover, Places
  <1>16. CASE TakeAck
    BY Zenon, <1>16, TakeC2sFacts
       DEF TakeAck, clientVars, TypeOK, Types, WritersRecover, Places, NothingAfterArk
  <1>17. CASE HandshakeFails
    BY <1>17, TakeC2sFacts, Drops, DropWrites
    DEF HandshakeFails, SendDropped, clientVars, Fault, TypeOK, Types, WritersRecover, Places, Grown
  <1>18. CASE HandshakeTimeout
    BY <1>18 DEF HandshakeTimeout, clientVars, Fault, TypeOK, Types, WritersRecover, Places
  <1>19. CASE ServerSend
    <2>1. /\ s2c' \in Directions /\ (~s2c'.resync => s2c'.tail = Empty)
          /\ sbound' => ~s2c'.resync
      BY Zenon, <1>19, ServerMessageWrites DEF Grown
    <2>2. /\ UNCHANGED <<c2s, attempt, connecting, client, cbound, csent, crcvd>>
          /\ UNCHANGED <<answer, serving, offer, server, srcvd>>
          /\ server # NoKeys /\ ssent' = ssent + 1 /\ (faults' = faults \/ faults' = faults + 1)
      BY Zenon, <1>19 DEF ServerSend, clientVars, Fault
    <2>3. QED
      BY <2>1, <2>2 DEF TypeOK, Types, WritersRecover, Places
  <1>20. CASE Disconnect
    BY <1>0, <1>20, DropWrites
       DEF Disconnect, ServerEnds, clientVars, Fault, TypeOK, Types, WritersRecover, Places,
       Grown
  <1>21. CASE SenderDisconnect
    BY <1>21, DropWrites
       DEF SenderDisconnect, clientVars, Fault, TypeOK, Types, WritersRecover, Places, Grown
  <1>22. QED
    BY Zenon, <1>1, <1>2, <1>3, <1>4, <1>5, <1>6, <1>7, <1>8, <1>9, <1>10, <1>11, <1>12, <1>13,
       <1>14,
       <1>15, <1>16, <1>17, <1>18, <1>19, <1>20, <1>21 DEF Next, ClientStep, ServerStep

(* The fields of the frames without keys.                                  *)
LEMMA SpecialFields ==
  /\ Empty.type = "empty" /\ Empty.keys[1] = 0 /\ Empty.keys[2] = 0
  /\ Garbage.type = "garbage" /\ Garbage.keys[1] = 0 /\ Garbage.keys[2] = 0
  /\ NoKeys[1] = 0 /\ NoKeys[2] = 0
  BY DEF Empty, Garbage, Frame, NoKeys

(* The fields of any frame.                                                *)
LEMMA FrameFields ==
  ASSUME NEW type, NEW keys, NEW n
  PROVE  Frame(type, keys, n).type = type /\ Frame(type, keys, n).keys = keys /\ Frame(type, keys, n).n = n
  BY Zenon DEF Frame

(* The parts of the keys in use are numbers.                               *)
LEMMA KeysOrdered ==
  ASSUME TypeOK
  PROVE  /\ attempt \in Nat /\ answer \in Nat
         /\ client[1] \in Nat /\ client[2] \in Nat /\ server[1] \in Nat /\ server[2] \in Nat
         /\ offer[1] \in Nat /\ offer[2] \in Nat
         /\ \A f \in Held(c2s) \cup Held(s2c) : f \in FrameSet /\ f.keys[1] \in Nat /\ f.keys[2] \in Nat
  <1>1. \A d \in Directions : \A f \in Held(d) : f \in FrameSet
    BY DEF Directions, Held
  <1>2. QED
    BY <1>1, FrameParts DEF TypeOK, Types, Keys

(* Every step keeps the keys of a running attempt fresh.                   *)
LEMMA StepKeepsKeysFresh ==
  ASSUME Inv, Next
  PROVE  KeysAreFresh'
  <1> USE DEF Inv
  <1>0. TypeOK /\ WritersRecover /\ Places /\ KeysAreFresh
    BY Zenon
  <1>1. CASE Connect
    <2>1. \A f \in Held(c2s)' : f \in Held(c2s) \/ f = Empty \/ f = Garbage
      BY <1>1, ConnectWrites DEF Grown
    <2>2. attempt' = attempt + 1 /\ client' = NoKeys /\ UNCHANGED <<s2c, answer, offer, server>>
      BY SMTT(30), <1>1 DEF Connect, ClientEnds, serverVars
    <2>3. \A f \in Held(c2s)' : f.keys[1] <= attempt
      BY <1>0, <2>1, SpecialFields, KeysOrdered DEF KeysAreFresh
    <2>4. \A f \in Held(s2c)' : f.keys[1] <= attempt /\ f.keys[2] <= answer
      BY <1>0, <2>2 DEF KeysAreFresh, Held
    <2>5. \A f \in Held(c2s)' \cup Held(s2c)' : f.keys[1] \in Nat
      BY SMTT(30), <1>0, <2>1, <2>2, KeysOrdered, SpecialFields DEF Held
    <2>6. QED
      BY <1>0, <2>2, <2>3, <2>4, <2>5, KeysOrdered DEF KeysAreFresh
  <1>2. CASE SendHello
    <2> DEFINE hello == Frame("hello", <<attempt, 0>>, 0)
    <2>1. \A f \in Held(c2s)' : f \in Held(c2s) \/ f = Empty \/ f = Garbage \/ f = hello
      BY <1>2, HelloWrites DEF Grown
    <2>2. hello.type = "hello" /\ hello.keys[1] = attempt
      BY FrameFields
    <2> HIDE DEF hello
    <2>3. UNCHANGED <<s2c, attempt, client, answer, offer, server>> /\ connecting # "no"
      BY <1>2 DEF SendHello, serverVars
    <2>4. \A f \in Held(c2s)' : /\ f.keys[1] <= attempt
                                /\ f.type \in {"ack", "message"} => f.keys[1] < attempt
      BY <1>0, <2>1, <2>2, <2>3, SpecialFields, KeysOrdered DEF KeysAreFresh
    <2>5. QED
      BY <1>0, <2>3, <2>4 DEF KeysAreFresh, Held
  <1>3. CASE SkipStale
    <2>1. Held(s2c)' \subseteq Held(s2c)
      BY <1>3, TakeS2cFacts DEF SkipStale
    <2>2. UNCHANGED <<c2s, attempt, connecting, client, answer, offer, server>>
      BY Zenon, <1>3 DEF SkipStale, clientVars, serverVars
    <2>3. QED
      BY <1>0, <2>1, <2>2 DEF KeysAreFresh, Held
  <1>4. CASE TakeArk
    <2> DEFINE ack == Ack(Head(s2c.frames).keys)
    <2>1. \A f \in Held(c2s)' : f \in Held(c2s) \/ f = Empty \/ f = Garbage \/ f = ack
      BY Zenon, <1>4, AckWrites DEF Grown
    <2>2. ack.keys[1] = attempt
      BY <1>4, ArkNamesAttempt, FrameFields DEF Ack
    <2> HIDE DEF ack
    <2>3. Held(s2c)' \subseteq Held(s2c)
      BY Zenon, <1>4, TakeS2cFacts DEF TakeArk
    <2>4. UNCHANGED <<attempt, answer, offer, server>> /\ connecting' = "no"
      BY Zenon, <1>4 DEF TakeArk, serverVars
    <2>5. client' # NoKeys => client'[1] = attempt /\ client'[2] <= answer
      <3>1. client' = client \/ client' = Head(s2c.frames).keys
        BY Zenon, <1>4, AckWrites
      <3>2. QED
        BY <1>0, <1>4, <3>1, ArkNamesAttempt DEF KeysAreFresh
    <2>6. \A f \in Held(c2s)' : f.keys[1] <= attempt
      BY <1>0, <2>1, <2>2, SpecialFields, KeysOrdered DEF KeysAreFresh
    <2>7. QED
      BY <1>0, <2>3, <2>4, <2>5, <2>6 DEF KeysAreFresh
  <1>5. CASE ConnectTimeout \/ ClientDisconnect \/ ClientReadFails
    <2>1. UNCHANGED <<c2s, s2c, attempt, answer, offer, server>> /\ client' \in {client, NoKeys}
      BY <1>5 DEF ConnectTimeout, ClientDisconnect, ClientReadFails, ClientEnds, serverVars
    <2>2. connecting' = "no" \/ connecting' = connecting
      BY Zenon, <1>5 DEF ConnectTimeout, ClientDisconnect, ClientReadFails
    <2>3. QED
      BY <1>0, <2>1, <2>2 DEF KeysAreFresh, Held
  <1>6. CASE ClientSend
    <2> DEFINE message == Message(client, csent + 1)
    <2>1. \A f \in Held(c2s)' : f \in Held(c2s) \/ f = Empty \/ f = Garbage \/ f = message
      BY Zenon, <1>6, ClientMessageWrites DEF Grown
    <2>2. message.keys[1] = attempt
      BY <1>0, <1>6, FrameFields DEF KeysAreFresh, ClientSend, Message
    <2> HIDE DEF message
    <2>3. UNCHANGED <<s2c, attempt, client, answer, offer, server>> /\ connecting' = "no"
      BY Zenon, <1>6 DEF ClientSend, serverVars
    <2>4. \A f \in Held(c2s)' : f.keys[1] <= attempt
      BY <1>0, <2>1, <2>2, SpecialFields, KeysOrdered DEF KeysAreFresh
    <2>5. QED
      BY <1>0, <2>3, <2>4 DEF KeysAreFresh, Held
  <1>7. CASE ClientRecv
    <2>1. Held(s2c)' \subseteq Held(s2c)
      BY Zenon, <1>7, TakeS2cFacts DEF ClientRecv
    <2>2. UNCHANGED <<c2s, attempt, answer, offer, server>> /\ connecting' = "no"
      BY <1>7 DEF ClientRecv, serverVars
    <2>3. client' = client \/ client' = NoKeys
      BY Zenon, <1>7 DEF ClientRecv, ClientEnds
    <2>4. QED
      BY <1>0, <2>1, <2>2, <2>3 DEF KeysAreFresh, Held
  (* The server reads: the answer may be an empty frame.                   *)
  <1>8. ASSUME UNCHANGED <<attempt, connecting, client, answer, offer>>,
               server' \in {server, NoKeys}, Held(c2s)' \subseteq Held(c2s),
               \A f \in Held(s2c)' : f \in Held(s2c) \/ f = Empty \/ f = Garbage
        PROVE  KeysAreFresh'
    <2>1. /\ server'[1] <= attempt /\ server'[2] <= answer
          /\ connecting # "no" => server'[1] < attempt
      BY <1>0, <1>8, SpecialFields, KeysOrdered DEF KeysAreFresh
    <2>2. \A f \in Held(s2c)' : /\ f.keys[1] <= attempt /\ f.keys[2] <= answer
                                /\ connecting # "no" /\ f.type = "message" => f.keys[1] < attempt
      BY <1>0, <1>8, SpecialFields, KeysOrdered DEF KeysAreFresh
    <2>3. QED
      BY Zenon, <1>0, <1>8, <2>1, <2>2 DEF KeysAreFresh
  <1>9. CASE ServerReset \/ ServerMessage \/ SkipReset \/ Restart
    <2>1. TakeC2s /\ UNCHANGED s2c
      BY Zenon, <1>9 DEF ServerReset, ServerMessage, SkipReset, Restart
    <2>a. Held(c2s)' \subseteq Held(c2s) /\ Held(s2c)' = Held(s2c)
      BY Zenon, <1>0, <2>1, TakeC2sFacts
    <2>2. UNCHANGED <<attempt, connecting, client, answer, offer>> /\ server' \in {server, NoKeys}
      BY Zenon, <1>9
         DEF ServerReset, ServerMessage, SkipReset, Restart, ServerEnds, clientVars, serverVars
    <2>3. QED
      BY Zenon, <1>8, <2>a, <2>2
  <1>10. CASE StartHandshake \/ HandshakeTimeout
    <2>1. UNCHANGED <<c2s, s2c, attempt, connecting, client, answer, offer, server>>
      BY <1>10 DEF StartHandshake, HandshakeTimeout, clientVars
    <2>2. QED
      BY <1>0, <2>1 DEF KeysAreFresh, Held
  <1>11. CASE ServerRefuses \/ HandshakeFails
    <2>1. Held(c2s)' \subseteq Held(c2s)
      BY Zenon, <1>11, TakeC2sFacts DEF ServerRefuses, HandshakeFails
    <2>2. \A f \in Held(s2c)' : f \in Held(s2c) \/ f = Empty \/ f = Garbage
      BY Zenon, <1>11, Drops, DropWrites DEF ServerRefuses, HandshakeFails, Grown
    <2>3. UNCHANGED <<attempt, connecting, client, answer, offer>> /\ server' \in {server, NoKeys}
      BY Zenon, <1>11 DEF ServerRefuses, HandshakeFails, ServerEnds, clientVars
    <2>4. QED
      BY Zenon, <1>8, <2>1, <2>2, <2>3
  <1>12. CASE TakeHello
    <2> DEFINE keys == <<Head(c2s.frames).keys[1], answer + 1>>
    <2>1. /\ \A f \in Held(s2c)' : f \in Held(s2c) \/ f = Empty \/ f = Garbage \/ f = Ark(keys)
          /\ offer' \in {offer, keys}
      BY SMTT(30), <1>12, ArkWrites DEF Grown
    <2>2. Held(c2s)' \subseteq Held(c2s) /\ Head(c2s.frames) \in Held(c2s)
      BY Zenon, <1>12, TakeC2sFacts DEF TakeHello
    <2>3. keys[1] <= attempt /\ keys[2] = answer + 1
      BY Zenon, <1>0, <2>2 DEF KeysAreFresh
    <2>4. Ark(keys).keys = keys /\ Ark(keys).type = "ark"
      BY FrameFields DEF Ark
    <2>5. UNCHANGED <<attempt, connecting, client, server>> /\ answer' = answer + 1
      BY SMTT(30), <1>12 DEF TakeHello, clientVars
    <2> HIDE DEF keys
    <2>6. \A f \in Held(s2c)' : /\ f.keys[1] <= attempt /\ f.keys[2] <= answer + 1
                                /\ connecting # "no" /\ f.type = "message" => f.keys[1] < attempt
      BY <1>0, <2>1, <2>3, <2>4, SpecialFields, KeysOrdered DEF KeysAreFresh
    <2>7. /\ client # NoKeys => client[1] = attempt /\ client[2] <= answer + 1
          /\ server[2] <= answer + 1 /\ offer'[2] <= answer + 1
      BY SMTT(30), <1>0, <2>1, <2>3, KeysOrdered DEF KeysAreFresh
    <2>8. QED
      BY SMTT(30), <1>0, <2>1, <2>2, <2>3, <2>5, <2>6, <2>7 DEF KeysAreFresh
  <1>13. CASE TakeAck
    <2>1. Held(c2s)' \subseteq Held(c2s) /\ Ack(offer) \in Held(c2s)
      BY Zenon, <1>13, TakeC2sFacts DEF TakeAck, MyAck, Ack
    <2>2. /\ UNCHANGED <<s2c, attempt, connecting, client, answer, offer>>
          /\ server' = offer
      BY Zenon, <1>13 DEF TakeAck, clientVars
    <2>3. connecting # "no" => offer[1] < attempt
      BY SMTT(30), <1>0, <2>1, FrameFields DEF KeysAreFresh, Ack
    <2>4. QED
      BY SMTT(30), <1>0, <2>1, <2>2, <2>3 DEF KeysAreFresh, Held
  <1>14. CASE ServerSend
    <2> DEFINE message == Message(server, ssent + 1)
    <2>1. \A f \in Held(s2c)' : f \in Held(s2c) \/ f = Empty \/ f = Garbage \/ f = message
      BY Zenon, <1>14, ServerMessageWrites DEF Grown
    <2>2. message.keys = server
      BY FrameFields DEF Message
    <2> HIDE DEF message
    <2>3. UNCHANGED <<c2s, attempt, connecting, client, answer, offer, server>>
      BY Zenon, <1>14 DEF ServerSend, clientVars
    <2>4. \A f \in Held(s2c)' : /\ f.keys[1] <= attempt /\ f.keys[2] <= answer
                                /\ connecting # "no" /\ f.type = "message" => f.keys[1] < attempt
      BY SMTT(30), <1>0, <2>1, <2>2, SpecialFields, KeysOrdered DEF KeysAreFresh
    <2>5. QED
      BY <1>0, <2>3, <2>4 DEF KeysAreFresh, Held
  <1>15. CASE Disconnect \/ SenderDisconnect
    <2>1. \A f \in Held(s2c)' : f \in Held(s2c) \/ f = Empty \/ f = Garbage
      BY Zenon, <1>15, DropWrites DEF Disconnect, SenderDisconnect, Grown
    <2>2. /\ UNCHANGED <<c2s, attempt, connecting, client, answer, offer>>
          /\ server' \in {server, NoKeys}
      BY <1>15 DEF Disconnect, SenderDisconnect, ServerEnds, clientVars
    <2>3. QED
      BY Zenon, <1>8, <2>1, <2>2 DEF Held
  <1>16. QED
    BY <1>1, <1>2, <1>3, <1>4, <1>5, <1>6, <1>7, <1>9, <1>10, <1>11, <1>12, <1>13, <1>14, <1>15
    DEF Next, ClientStep, ServerStep

(* Every step keeps an ArkHello the last of what its server wrote.         *)
LEMMA StepKeepsNothingAfterArk ==
  ASSUME Inv, Next
  PROVE  NothingAfterArk'
  <1> USE DEF Inv
  <1>0. TypeOK /\ WritersRecover /\ Places /\ KeysAreFresh /\ NothingAfterArk
    BY Zenon
  <1>1. ASSUME serving' # "ack" PROVE NothingAfterArk'
    BY Zenon, <1>1 DEF NothingAfterArk
  (* The client leaves the answer alone or takes it.                       *)
  <1>2. ASSUME UNCHANGED <<serving, offer, s2c>>, client' \in {client, NoKeys}
        PROVE  NothingAfterArk'
    BY Zenon, <1>0, <1>2 DEF NothingAfterArk
  <1>3. ASSUME UNCHANGED <<serving, offer>>, s2c.frames # <<>>, TakeS2c,
               serving = "ack" /\ client' = offer => Len(s2c'.frames) = 0
        PROVE  NothingAfterArk'
    <2>1. /\ s2c'.resync = s2c.resync
          /\ Len(s2c'.frames) = Len(s2c.frames) - 1 /\ Len(s2c.frames) \in Nat
          /\ DOMAIN s2c'.frames = 1 .. Len(s2c'.frames)
          /\ \A i \in DOMAIN s2c'.frames :
               i + 1 \in DOMAIN s2c.frames /\ s2c'.frames[i] = s2c.frames[i + 1]
      <3>1. s2c \in Directions /\ s2c.frames # <<>> /\ s2c' = [s2c EXCEPT !.frames = Tail(@)]
        BY Zenon, <1>0, <1>3 DEF TakeS2c, TypeOK, Types
      <3>2. QED
        BY <3>1, PopFacts
    <2>2. ASSUME serving = "ack", NEW i \in DOMAIN s2c'.frames,
                 s2c'.frames[i].type = "ark", s2c'.frames[i].keys = offer
          PROVE  i = Len(s2c'.frames)
      <3>1. i + 1 = Len(s2c.frames)
        BY Zenon, <1>0, <2>1, <2>2 DEF NothingAfterArk
      <3>2. QED
        BY <2>1, <3>1
    <2>3. QED
      BY <1>0, <1>3, <2>1, <2>2 DEF NothingAfterArk
  <1>4. CASE SkipStale
    BY Zenon, <1>0, <1>3, <1>4 DEF SkipStale, clientVars, serverVars, NothingAfterArk, Places
  <1>5. CASE TakeArk
    <2>1. ASSUME serving = "ack", client' = offer PROVE Len(s2c'.frames) = 0
      <3>1. Head(s2c.frames) = s2c.frames[1] /\ 1 \in DOMAIN s2c.frames
        BY SMTT(30), <1>0, <1>5, TakeS2cFacts DEF TakeArk
      <3>2. client' = Head(s2c.frames).keys /\ Head(s2c.frames).type = "ark"
        BY Zenon, <1>0, <1>5, <2>1, AckWrites, ArkNamesAttempt DEF NothingAfterArk, Places, TakeArk
      <3>3. Len(s2c.frames) = 1
        BY Zenon, <1>0, <2>1, <3>1, <3>2 DEF NothingAfterArk
      <3>4. Len(s2c'.frames) = Len(s2c.frames) - 1
        BY Zenon, <1>0, <1>5, TakeS2cFacts DEF TakeArk
      <3>5. QED
        BY <3>3, <3>4
    <2>2. QED
      BY <1>3, <1>5, <2>1 DEF TakeArk, serverVars
  <1>6. CASE ClientRecv
    <2>1. client' \in {client, NoKeys}
      BY Zenon, <1>6 DEF ClientRecv, ClientEnds
    <2>2. Len(s2c.frames) # 0
      BY <1>0, <1>6, TakeS2cFacts DEF ClientRecv
    <2>3. QED
      BY Zenon, <1>0, <1>3, <1>6, <2>1, <2>2 DEF ClientRecv, serverVars, NothingAfterArk
  <1>7. CASE Connect \/ SendHello \/ ConnectTimeout \/ ClientDisconnect \/ ClientReadFails \/ ClientSend
    BY Zenon, <1>2, <1>7
       DEF Connect, SendHello, ConnectTimeout, ClientDisconnect, ClientReadFails, ClientSend, ClientEnds,
       serverVars
  (* Without a session the server writes nothing before the next recv.     *)
  <1>8. CASE \/ ServerReset \/ StartHandshake \/ ServerMessage \/ ServerRefuses \/ SkipReset \/ Restart
             \/ TakeAck \/ HandshakeFails \/ HandshakeTimeout \/ Disconnect
    BY Zenon, <1>1, <1>8
       DEF ServerReset, StartHandshake, ServerMessage, ServerRefuses, SkipReset, Restart,
       TakeAck, HandshakeFails, HandshakeTimeout, Disconnect, serverVars
  <1>9. CASE ServerSend \/ SenderDisconnect
    BY Zenon, <1>0, <1>1, <1>9 DEF ServerSend, SenderDisconnect, Places
  <1>10. CASE TakeHello
    <2> DEFINE keys == <<Head(c2s.frames).keys[1], answer + 1>>
    <2>1. /\ EndsWith(s2c', Empty) \/ EndsWith(s2c', Ark(keys)) \/ s2c'.resync
          /\ \/ serving' = "frames"
             \/ /\ serving' = "ack" /\ offer' = keys /\ ~s2c'.resync
                /\ \A i \in DOMAIN s2c'.frames :
                     i # Len(s2c'.frames) => s2c'.frames[i] \in Held(s2c) \cup {Empty}
      BY SMTT(30), <1>0, <1>10, ArkWrites
    <2>2. keys[2] = answer + 1 /\ UNCHANGED client
      BY <1>10 DEF TakeHello, clientVars
    <2> HIDE DEF keys
    <2>3. CASE serving' = "frames"
      BY Zenon, <1>1, <2>3
    <2>4. CASE serving' = "ack" /\ offer' = keys
      <3>1. client' # offer' /\ offer' # NoKeys
        BY <1>0, <2>2, <2>4, KeysOrdered, SpecialFields DEF KeysAreFresh
      <3>2. \A f \in Held(s2c) \cup {Empty} : f.keys # keys
        BY <1>0, <2>2, KeysOrdered, SpecialFields DEF KeysAreFresh
      <3>3. QED
        BY Zenon, <2>1, <2>4, <3>1, <3>2 DEF NothingAfterArk
    <2>5. QED
      BY Zenon, <2>1, <2>3, <2>4
  <1>11. QED
    BY <1>4, <1>5, <1>6, <1>7, <1>8, <1>9, <1>10 DEF Next, ClientStep, ServerStep

(* Every step keeps messages only behind an unread HostAck.                *)
LEMMA StepKeepsMessagesFollowAck ==
  ASSUME Inv, Next
  PROVE  MessagesFollowAck'
  <1> USE DEF Inv
  <1>0. TypeOK /\ WritersRecover /\ Places /\ KeysAreFresh /\ MessagesFollowAck
    BY Zenon
  <1>1. ASSUME ~cbound' PROVE MessagesFollowAck'
    BY Zenon, <1>1 DEF MessagesFollowAck
  <1>2. CASE Connect \/ SendHello \/ SkipStale \/ ConnectTimeout \/ ClientDisconnect \/ ClientReadFails
    BY SMTT(30), <1>0, <1>1, <1>2
       DEF Connect, SendHello, SkipStale, ConnectTimeout, ClientDisconnect, ClientReadFails, ClientEnds,
       clientVars, Places
  <1>3. CASE TakeArk
    <2> DEFINE keys == Head(s2c.frames).keys
    <2>1. \/ ~cbound'
          \/ client' = keys /\ c2s'.frames = Append(c2s.frames, Ack(keys))
      BY Zenon, <1>0, <1>3, AckWrites DEF Places, TakeArk
    <2>2. keys \in Keys /\ keys[1] = attempt /\ attempt > server[1]
      BY Zenon, <1>3, ArkNamesAttempt
    <2>3. Held(s2c)' \subseteq Held(s2c)
      BY Zenon, <1>0, <1>3, TakeS2cFacts DEF TakeArk
    <2>4. UNCHANGED <<server, csent, crcvd>> /\ csent = 0 /\ crcvd = 0 /\ connecting # "no"
      BY Zenon, <1>0, <1>3 DEF TakeArk, serverVars, Places
    <2> HIDE DEF keys
    <2>5. \A i \in DOMAIN c2s.frames : c2s.frames[i] # Ack(keys)
      BY SMTT(30), <1>0, <2>2, <2>4, KeysOrdered, FrameFields DEF KeysAreFresh, Held, Ack
    <2>6. \A f \in Held(s2c)' : f.type = "message" => f.keys # keys
      BY <1>0, <2>2, <2>3, <2>4, KeysOrdered DEF KeysAreFresh
    <2>7. c2s.frames \in Seq(FrameSet) /\ Ack(keys) \in FrameSet
      BY SMTT(30), <1>0, <2>2, Parts, FramesAreFrames DEF TypeOK, Types, Ack
    <2>8. ASSUME client' = keys, c2s'.frames = Append(c2s.frames, Ack(keys)),
                 NEW k \in DOMAIN c2s'.frames, c2s'.frames[k] = Ack(keys)
          PROVE  Len(c2s'.frames) = k + csent'
      BY <2>4, <2>5, <2>7, <2>8, HeldAppend
    <2>9. QED
      BY SMTT(30), <1>1, <2>1, <2>2, <2>4, <2>6, <2>8, KeysOrdered DEF MessagesFollowAck
  <1>4. CASE ClientSend
    <2> DEFINE message == Message(client, csent + 1)
    <2>1. \/ ~cbound'
          \/ cbound /\ c2s'.frames = Append(c2s.frames, message)
      BY Zenon, <1>0, <1>4, ClientMessageWrites DEF ClientSend
    <2>2. UNCHANGED <<s2c, client, crcvd, server>> /\ csent' = csent + 1
      BY Zenon, <1>4 DEF ClientSend, serverVars
    <2>3. c2s.frames \in Seq(FrameSet) /\ message \in FrameSet
      BY <1>0, Parts, FramesAreFrames DEF TypeOK, Types, Message
    <2>4. message # Ack(client)
      BY FrameFields DEF Message, Ack
    <2>5. csent \in Nat
      BY <1>0 DEF TypeOK, Types
    <2>6. ASSUME cbound, c2s'.frames = Append(c2s.frames, message),
                 NEW k \in DOMAIN c2s'.frames, c2s'.frames[k] = Ack(client)
          PROVE  /\ Len(c2s'.frames) = k + csent'
                 /\ \A i \in 1 .. csent' : c2s'.frames[k + i] = Message(client, i)
                 /\ server # client /\ crcvd = 0
                 /\ \A f \in Held(s2c) : f.type = "message" => f.keys # client
      <3> HIDE DEF message
      <3>1. k \in DOMAIN c2s.frames /\ c2s.frames[k] = Ack(client)
        BY <2>3, <2>4, <2>6, HeldAppend
      <3>2. /\ Len(c2s.frames) = k + csent
            /\ \A i \in 1 .. csent : c2s.frames[k + i] = Message(client, i)
            /\ server # client /\ crcvd = 0
            /\ \A f \in Held(s2c) : f.type = "message" => f.keys # client
        BY SMTT(30), <1>0, <2>6, <3>1 DEF MessagesFollowAck
      <3>3. k \in Nat /\ Len(c2s'.frames) = Len(c2s.frames) + 1
        BY <2>3, <2>6, <3>1, HeldAppend
      <3>4. ASSUME NEW i \in 1 .. csent' PROVE c2s'.frames[k + i] = Message(client, i)
        <4>1. CASE i = csent + 1
          <5>1. k + i = Len(c2s.frames) + 1
            BY <2>5, <3>2, <3>3, <4>1
          <5>2. QED
            BY <2>3, <2>6, <4>1, <5>1, HeldAppend DEF message
        <4>2. CASE i \in 1 .. csent
          <5>1. k + i \in DOMAIN c2s.frames
            BY SMTT(30), <2>3, <2>5, <3>2, <3>3, <4>2
          <5>2. QED
            BY <2>3, <2>6, <3>2, <4>2, <5>1, HeldAppend
        <4>3. QED
          BY <2>2, <2>5, <3>4, <4>1, <4>2
      <3>5. QED
        BY <2>2, <2>5, <3>2, <3>3, <3>4
    <2>7. QED
      BY Zenon, <1>1, <2>1, <2>2, <2>6 DEF MessagesFollowAck, Held
  <1>5. CASE ClientRecv
    <2>1. CASE cbound /\ Head(s2c.frames) = Message(client, crcvd + 1)
      <3>1. Head(s2c.frames) \in Held(s2c) /\ Head(s2c.frames).type = "message" /\ Head(s2c.frames).keys = client
        BY <1>0, <1>5, <2>1, TakeS2cFacts, FrameFields DEF ClientRecv, Message
      <3>2. \A k \in DOMAIN c2s.frames : c2s.frames[k] # Ack(client)
        BY Zenon, <1>0, <2>1, <3>1 DEF MessagesFollowAck
      <3>3. UNCHANGED <<c2s, client>>
        BY Zenon, <1>5, <2>1 DEF ClientRecv, Message
      <3>4. QED
        BY <3>2, <3>3 DEF MessagesFollowAck
    <2>2. CASE ~(cbound /\ Head(s2c.frames) = Message(client, crcvd + 1))
      BY Zenon, <1>1, <1>5, <2>2 DEF ClientRecv, ClientEnds, Message
    <2>3. QED
      BY <2>1, <2>2
  (* The server takes a frame and sends messages in its own session only.  *)
  <1>6. ASSUME UNCHANGED clientVars, TakeC2s \/ UNCHANGED c2s, server' \in {server, NoKeys},
               \A f \in Held(s2c)' : f.type = "message" => f \in Held(s2c) \/ f.keys = server
        PROVE  MessagesFollowAck'
    <2> SUFFICES ASSUME cbound, NEW k \in DOMAIN c2s'.frames, c2s'.frames[k] = Ack(client)
                 PROVE  /\ Len(c2s'.frames) = k + csent
                        /\ \A i \in 1 .. csent : c2s'.frames[k + i] = Message(client, i)
                        /\ server' # client /\ crcvd = 0
                        /\ \A f \in Held(s2c)' : f.type = "message" => f.keys # client
      BY Zenon, <1>6 DEF MessagesFollowAck, clientVars
    <2>1. client # NoKeys /\ csent \in Nat
      BY SMTT(30), <1>0 DEF Places, TypeOK, Types
    <2>2. ASSUME NEW j \in DOMAIN c2s.frames, c2s.frames[j] = Ack(client)
          PROVE  /\ Len(c2s.frames) = j + csent
                 /\ \A i \in 1 .. csent : c2s.frames[j + i] = Message(client, i)
                 /\ server' # client /\ crcvd = 0
                 /\ \A f \in Held(s2c)' : f.type = "message" => f.keys # client
      BY SMTT(30), <1>0, <1>6, <2>1, <2>2 DEF MessagesFollowAck
    <2>3. CASE UNCHANGED c2s
      BY Zenon, <2>2, <2>3
    <2>4. CASE TakeC2s
      <3>1. /\ Len(c2s'.frames) = Len(c2s.frames) - 1 /\ Len(c2s.frames) \in Nat
            /\ DOMAIN c2s'.frames = 1 .. Len(c2s'.frames)
            /\ \A i \in DOMAIN c2s'.frames :
                 i + 1 \in DOMAIN c2s.frames /\ c2s'.frames[i] = c2s.frames[i + 1]
        BY Zenon, <1>0, <2>4, TakeC2sFacts
      <3>2. k + 1 \in DOMAIN c2s.frames /\ c2s.frames[k + 1] = Ack(client) /\ k \in Nat
        BY <3>1
      <3>3. /\ Len(c2s.frames) = k + 1 + csent
            /\ \A i \in 1 .. csent : c2s.frames[k + 1 + i] = Message(client, i)
            /\ server' # client /\ crcvd = 0
            /\ \A f \in Held(s2c)' : f.type = "message" => f.keys # client
        BY <2>2, <3>2
      <3>4. Len(c2s'.frames) = k + csent
        BY SMTT(30), <2>1, <3>1, <3>2, <3>3
      <3>5. ASSUME NEW i \in 1 .. csent PROVE c2s'.frames[k + i] = Message(client, i)
        <4>a. DOMAIN c2s'.frames = 1 .. (k + csent)
          BY <3>1, <3>4
        <4>1. k + i \in DOMAIN c2s'.frames /\ (k + i) + 1 = k + 1 + i
          BY SMTT(30), <2>1, <3>2, <4>a
        <4>2. QED
          BY Zenon, <3>1, <3>3, <4>1
      <3>6. QED
        BY Zenon, <3>3, <3>4, <3>5
    <2>5. QED
      BY Zenon, <1>6, <2>3, <2>4
  <1>7. CASE ServerReset \/ StartHandshake \/ ServerMessage \/ SkipReset \/ Restart \/ HandshakeTimeout
    BY <1>6, <1>7
       DEF ServerReset, StartHandshake, ServerMessage, SkipReset, Restart, HandshakeTimeout,
       ServerEnds, serverVars, Held
  <1>8. CASE ServerRefuses \/ HandshakeFails \/ Disconnect \/ SenderDisconnect
    <2>1. \A f \in Held(s2c)' : f \in Held(s2c) \/ f = Empty \/ f = Garbage
      BY Zenon, <1>0, <1>8, Drops, DropWrites
         DEF ServerRefuses, HandshakeFails, Disconnect, SenderDisconnect, Grown
    <2>2. /\ UNCHANGED clientVars /\ (TakeC2s \/ UNCHANGED c2s) /\ server' \in {server, NoKeys}
      BY SMTT(30), <1>8 DEF ServerRefuses, HandshakeFails, Disconnect, SenderDisconnect, ServerEnds
    <2>3. QED
      BY Zenon, <1>6, <2>1, <2>2, SpecialFields
  <1>9. CASE TakeHello
    <2> DEFINE keys == <<Head(c2s.frames).keys[1], answer + 1>>
    <2>1. \A f \in Held(s2c)' : f \in Held(s2c) \/ f = Empty \/ f = Garbage \/ f = Ark(keys)
      BY Zenon, <1>0, <1>9, ArkWrites DEF Grown
    <2>2. Ark(keys).type = "ark"
      BY FrameFields DEF Ark
    <2>3. UNCHANGED clientVars /\ TakeC2s /\ UNCHANGED server
      BY Zenon, <1>9 DEF TakeHello
    <2>4. QED
      BY SMTT(30), <1>6, <2>1, <2>2, <2>3, SpecialFields
  <1>10. CASE ServerSend
    <2> DEFINE message == Message(server, ssent + 1)
    <2>1. \A f \in Held(s2c)' : f \in Held(s2c) \/ f = Empty \/ f = Garbage \/ f = message
      BY Zenon, <1>0, <1>10, ServerMessageWrites DEF Grown
    <2>2. message.keys = server
      BY FrameFields DEF Message
    <2>3. UNCHANGED clientVars /\ UNCHANGED c2s /\ UNCHANGED server
      BY Zenon, <1>10 DEF ServerSend
    <2>4. QED
      BY Zenon, <1>6, <2>1, <2>2, <2>3, SpecialFields
  (* A HostAck is read once: no other one of the session follows it.       *)
  <1>11. CASE TakeAck
    <2> SUFFICES ASSUME cbound, NEW k \in DOMAIN c2s'.frames, c2s'.frames[k] = Ack(client)
                 PROVE  /\ Len(c2s'.frames) = k + csent
                        /\ \A i \in 1 .. csent : c2s'.frames[k + i] = Message(client, i)
                        /\ offer # client /\ crcvd = 0
                        /\ \A f \in Held(s2c) : f.type = "message" => f.keys # client
      BY <1>11 DEF MessagesFollowAck, TakeAck, clientVars, Held
    <2>a. TakeC2s /\ Head(c2s.frames) = Ack(offer)
      BY <1>11 DEF TakeAck, MyAck, Ack
    <2>1. /\ Len(c2s'.frames) = Len(c2s.frames) - 1 /\ Len(c2s.frames) \in Nat
          /\ DOMAIN c2s'.frames = 1 .. Len(c2s'.frames)
          /\ \A i \in DOMAIN c2s'.frames :
               i + 1 \in DOMAIN c2s.frames /\ c2s'.frames[i] = c2s.frames[i + 1]
          /\ 1 \in DOMAIN c2s.frames /\ c2s.frames[1] = Ack(offer)
      <3>1. c2s \in Directions /\ c2s.frames # <<>> /\ c2s' = [c2s EXCEPT !.frames = Tail(@)]
        BY <1>0, <2>a DEF TakeC2s, TypeOK, Types
      <3>2. QED
        BY <2>a, <3>1, PopFacts
    <2>2. k + 1 \in DOMAIN c2s.frames /\ c2s.frames[k + 1] = Ack(client) /\ k \in Nat /\ k > 0
      BY SMTT(30), <2>1
    <2>3. /\ Len(c2s.frames) = k + 1 + csent
          /\ \A i \in 1 .. csent : c2s.frames[k + 1 + i] = Message(client, i)
          /\ crcvd = 0
          /\ \A f \in Held(s2c) : f.type = "message" => f.keys # client
      BY Zenon, <1>0, <2>2 DEF MessagesFollowAck
    <2>4. csent \in Nat
      BY Zenon, <1>0 DEF TypeOK, Types
    <2>5. Len(c2s'.frames) = k + csent
      BY SMTT(30), <2>1, <2>2, <2>3, <2>4
    <2>6. ASSUME NEW i \in 1 .. csent PROVE c2s'.frames[k + i] = Message(client, i)
      <3>a. DOMAIN c2s'.frames = 1 .. (k + csent)
        BY Zenon, <2>1, <2>5
      <3>1. k + i \in DOMAIN c2s'.frames /\ (k + i) + 1 = k + 1 + i
        BY SMTT(30), <2>2, <2>4, <3>a
      <3>2. QED
        BY Zenon, <2>1, <2>3, <3>1
    <2>7. offer # client
      <3>1. SUFFICES ASSUME offer = client PROVE FALSE
        OBVIOUS
      <3>2. Len(c2s.frames) = 1 + csent
        BY <1>0, <2>1, <3>1 DEF MessagesFollowAck
      <3>3. QED
        BY <2>2, <2>3, <2>4, <3>2
    <2>8. QED
      BY SMTT(30), <2>3, <2>5, <2>6, <2>7
  <1>12. QED
    BY <1>2, <1>3, <1>4, <1>5, <1>7, <1>8, <1>9, <1>10, <1>11 DEF Next, ClientStep, ServerStep

(* A direction that carries messages carries one more when one is written. *)
LEMMA CarriesOneMore ==
  ASSUME NEW d \in Directions, NEW e, NEW keys \in Keys, NEW opened \in Nat, NEW sealed \in Nat,
         Carries(d, keys, opened, sealed),
         e.frames = Append(d.frames, Message(keys, sealed + 1))
  PROVE  Carries(e, keys, opened, sealed + 1)
  <1> DEFINE message == Message(keys, sealed + 1)
  <1>1. d.frames \in Seq(FrameSet) /\ message \in FrameSet
    BY Parts, FramesAreFrames DEF Message
  <1>2. e.frames = Append(d.frames, message) /\ Len(d.frames) = sealed - opened
    BY SMTT(30) DEF Carries
  <1> HIDE DEF message
  <1>3. ASSUME NEW i \in DOMAIN e.frames PROVE e.frames[i] = Message(keys, opened + i)
    <2>1. CASE i \in DOMAIN d.frames
      BY <1>1, <1>2, <2>1, HeldAppend DEF Carries
    <2>2. CASE i = Len(d.frames) + 1
      <3>1. opened + i = sealed + 1
        BY <1>2, <2>2
      <3>2. QED
        BY <1>1, <1>2, <2>2, <3>1, HeldAppend DEF message
    <2>3. QED
      BY <1>1, <1>2, <2>1, <2>2, HeldAppend
  <1>4. Len(e.frames) = sealed + 1 - opened
    BY <1>1, <1>2, HeldAppend
  <1>5. QED
    BY <1>3, <1>4 DEF Carries

(* It carries one less when the first is taken, by what happens to the     *)
(* elements.                                                               *)
LEMMA CarriesShifted ==
  ASSUME NEW d, NEW e, NEW keys, NEW opened \in Nat, NEW sealed \in Nat,
         Carries(d, keys, opened, sealed),
         Len(e.frames) = Len(d.frames) - 1, Len(d.frames) \in Nat,
         DOMAIN e.frames = 1 .. Len(e.frames),
         \A i \in DOMAIN e.frames : i + 1 \in DOMAIN d.frames /\ e.frames[i] = d.frames[i + 1]
  PROVE  Carries(e, keys, opened + 1, sealed)
  <1>1. Len(d.frames) = sealed - opened
    BY Zenon DEF Carries
  <1>2. ASSUME NEW i \in DOMAIN e.frames PROVE e.frames[i] = Message(keys, opened + 1 + i)
    <2>1. opened + (i + 1) = opened + 1 + i
      OBVIOUS
    <2>2. d.frames[i + 1] = Message(keys, opened + (i + 1))
      BY Zenon DEF Carries
    <2>3. QED
      BY Zenon, <2>1, <2>2
  <1>3. Len(e.frames) = sealed - (opened + 1)
    BY <1>1
  <1>4. QED
    BY Zenon, <1>2, <1>3 DEF Carries

(* The same by what happens to the direction.                              *)
LEMMA CarriesOneLess ==
  ASSUME NEW d \in Directions, NEW e, NEW keys, NEW opened \in Nat, NEW sealed \in Nat,
         Carries(d, keys, opened, sealed),
         d.frames # <<>>, e = [d EXCEPT !.frames = Tail(@)]
  PROVE  Carries(e, keys, opened + 1, sealed)
  BY PopFacts, CarriesShifted

(* Every step keeps a shared session clean.                                *)
LEMMA StepKeepsClean ==
  ASSUME Inv, Next
  PROVE  Clean'
  <1> USE DEF Inv
  <1>0. TypeOK /\ WritersRecover /\ Places /\ KeysAreFresh /\ Clean
    BY Zenon
  <1>1. ASSUME ~Shared' PROVE Clean'
    BY Zenon, <1>1 DEF Clean
  <1>2. ASSUME UNCHANGED <<c2s, s2c, client, cbound, csent, crcvd, server, sbound, ssent, srcvd>>
        PROVE  Clean'
    BY <1>0, <1>2 DEF Clean, Shared, Carries
  <1>3. CASE Connect \/ SendHello \/ SkipStale \/ ConnectTimeout \/ ClientDisconnect \/ ClientReadFails
    <2>1. ~cbound'
      BY Zenon, <1>0, <1>3
         DEF Connect, SendHello, SkipStale, ConnectTimeout, ClientDisconnect, ClientReadFails,
             ClientEnds,
         clientVars, Places
    <2>2. QED
      BY SMTT(30), <1>1, <2>1 DEF Shared
  <1>4. CASE TakeArk
    <2>1. ~cbound' \/ client' = Head(s2c.frames).keys
      BY Zenon, <1>0, <1>4, AckWrites DEF Places, TakeArk
    <2>2. Head(s2c.frames).keys # server
      BY <1>0, <1>4, ArkNamesAttempt, KeysOrdered
    <2>3. UNCHANGED server
      BY <1>4 DEF TakeArk, serverVars
    <2>4. QED
      BY SMTT(30), <1>1, <2>1, <2>2, <2>3 DEF Shared
  <1>5. CASE ClientSend
    <2>1. \/ ~cbound'
          \/ c2s'.frames = Append(c2s.frames, Message(client, csent + 1))
      BY Zenon, <1>0, <1>5, ClientMessageWrites
    <2>2. /\ UNCHANGED <<s2c, client, crcvd, server, sbound, ssent, srcvd>>
          /\ csent' = csent + 1 /\ cbound
      BY Zenon, <1>5 DEF ClientSend, serverVars
    <2>3. ASSUME Shared', c2s'.frames = Append(c2s.frames, Message(client, csent + 1))
          PROVE  Clean'
      <3>1. Carries(c2s, client, srcvd, csent) /\ Carries(s2c, server, crcvd, ssent)
        BY <1>0, <2>2, <2>3 DEF Clean, Shared
      <3>2. c2s \in Directions /\ client \in Keys /\ srcvd \in Nat /\ csent \in Nat
        BY <1>0 DEF TypeOK, Types
      <3>3. Carries(c2s', client, srcvd, csent + 1)
        BY Zenon, <2>3, <3>1, <3>2, CarriesOneMore
      <3>4. QED
        BY Zenon, <2>2, <3>1, <3>3 DEF Clean, Carries
    <2>4. QED
      BY <1>1, <2>1, <2>3 DEF Shared
  <1>6. CASE ClientRecv
    <2>1. CASE cbound /\ Head(s2c.frames) = Message(client, crcvd + 1)
      <3>1. /\ UNCHANGED <<c2s, client, cbound, csent, server, sbound, ssent, srcvd>>
            /\ crcvd' = crcvd + 1
            /\ s2c.frames # <<>> /\ s2c' = [s2c EXCEPT !.frames = Tail(@)]
        BY <1>6, <2>1 DEF ClientRecv, TakeS2c, serverVars, Message
      <3>2. ASSUME Shared' PROVE Clean'
        <4>1. Carries(c2s, client, srcvd, csent) /\ Carries(s2c, server, crcvd, ssent)
          BY <1>0, <3>1, <3>2 DEF Clean, Shared
        <4>2. s2c \in Directions /\ crcvd \in Nat /\ ssent \in Nat
          BY <1>0 DEF TypeOK, Types
        <4>3. Carries(s2c', server, crcvd + 1, ssent)
          BY Zenon, <3>1, <4>1, <4>2, CarriesOneLess
        <4>4. QED
          BY <3>1, <4>1, <4>3 DEF Clean, Carries
      <3>3. QED
        BY <1>1, <3>2
    <2>2. CASE ~(cbound /\ Head(s2c.frames) = Message(client, crcvd + 1))
      BY Zenon, <1>1, <1>6, <2>2 DEF ClientRecv, ClientEnds, Message, Shared
    <2>3. QED
      BY <2>1, <2>2
  <1>7. CASE ServerReset \/ ServerRefuses \/ Disconnect \/ SenderDisconnect
    BY <1>1, <1>7 DEF ServerReset, ServerRefuses, Disconnect, SenderDisconnect, ServerEnds, Shared
  <1>8. CASE StartHandshake \/ HandshakeTimeout
    BY <1>2, <1>8 DEF StartHandshake, HandshakeTimeout, clientVars
  <1>9. CASE SkipReset \/ TakeHello \/ Restart \/ HandshakeFails
    <2>1. ~sbound'
      BY <1>0, <1>9 DEF SkipReset, TakeHello, Restart, HandshakeFails, serverVars, Places
    <2>2. QED
      BY SMTT(30), <1>1, <2>1 DEF Shared
  <1>10. CASE ServerMessage
    <2>1. /\ UNCHANGED <<s2c, client, cbound, csent, crcvd, server, sbound, ssent>>
          /\ srcvd' = srcvd + 1
          /\ c2s.frames # <<>> /\ c2s' = [c2s EXCEPT !.frames = Tail(@)]
      BY <1>10 DEF ServerMessage, TakeC2s, clientVars
    <2>2. ASSUME Shared' PROVE Clean'
      <3>1. Carries(c2s, client, srcvd, csent) /\ Carries(s2c, server, crcvd, ssent)
        BY <1>0, <2>1, <2>2 DEF Clean, Shared
      <3>2. c2s \in Directions /\ srcvd \in Nat /\ csent \in Nat
        BY <1>0 DEF TypeOK, Types
      <3>3. Carries(c2s', client, srcvd + 1, csent)
        BY <2>1, <3>1, <3>2, CarriesOneLess
      <3>4. QED
        BY <2>1, <3>1, <3>3 DEF Clean, Carries
    <2>3. QED
      BY <1>1, <2>2
  (* What the client sent behind its HostAck is what the server opens.     *)
  <1>11. CASE TakeAck
    <2>1. /\ UNCHANGED <<s2c, client, cbound, csent, crcvd>>
          /\ server' = offer /\ ssent' = 0 /\ srcvd' = 0 /\ serving = "ack"
          /\ TakeC2s /\ Head(c2s.frames) = Ack(offer)
      BY SMTT(30), <1>11 DEF TakeAck, MyAck, Ack, clientVars
    <2>2. ASSUME Shared' PROVE Clean'
      <3>1. client = offer /\ cbound
        BY <2>1, <2>2 DEF Shared
      <3>2. c2s \in Directions /\ c2s.frames # <<>> /\ c2s' = [c2s EXCEPT !.frames = Tail(@)]
        BY <1>0, <2>1 DEF TakeC2s, TypeOK, Types
      <3>3. /\ Len(c2s'.frames) = Len(c2s.frames) - 1 /\ Len(c2s.frames) \in Nat
            /\ DOMAIN c2s'.frames = 1 .. Len(c2s'.frames)
            /\ \A i \in DOMAIN c2s'.frames : c2s'.frames[i] = c2s.frames[i + 1]
            /\ 1 \in DOMAIN c2s.frames /\ c2s.frames[1] = Ack(client)
        BY SMTT(30), <2>1, <3>1, <3>2, PopFacts
      <3>4. /\ Len(c2s.frames) = 1 + csent /\ crcvd = 0
            /\ \A i \in 1 .. csent : c2s.frames[1 + i] = Message(client, i)
        BY <3>1, <3>3 DEF MessagesFollowAck
      <3>5. csent \in Nat
        BY SMTT(30), <1>0 DEF TypeOK, Types
      <3>6. Len(c2s'.frames) = csent
        BY <3>3, <3>4, <3>5
      <3>7. ASSUME NEW i \in DOMAIN c2s'.frames PROVE c2s'.frames[i] = Message(client, 0 + i)
        <4>1. i \in 1 .. csent /\ i + 1 = 1 + i /\ 0 + i = i
          BY SMTT(30), <3>3, <3>5, <3>6
        <4>2. QED
          BY Zenon, <3>3, <3>4, <4>1
      <3>8. Carries(c2s', client, 0, csent)
        BY <3>5, <3>6, <3>7 DEF Carries
      <3>9. s2c.frames \in Seq(FrameSet) /\ Len(s2c.frames) = 0
        BY Zenon, <1>0, <2>1, <3>1, Parts DEF NothingAfterArk, TypeOK, Types
      <3>10. Carries(s2c, offer, 0, 0)
        BY <3>9 DEF Carries
      <3>11. QED
        BY <2>1, <3>4, <3>8, <3>10 DEF Clean, Carries
    <2>3. QED
      BY <1>1, <2>2
  <1>12. CASE ServerSend
    <2>1. \/ ~sbound'
          \/ s2c'.frames = Append(s2c.frames, Message(server, ssent + 1))
      BY Zenon, <1>0, <1>12, ServerMessageWrites
    <2>2. /\ UNCHANGED <<c2s, client, cbound, csent, crcvd, server, srcvd>>
          /\ ssent' = ssent + 1 /\ sbound
      BY Zenon, <1>12 DEF ServerSend, clientVars
    <2>3. ASSUME Shared', s2c'.frames = Append(s2c.frames, Message(server, ssent + 1))
          PROVE  Clean'
      <3>1. Carries(c2s, client, srcvd, csent) /\ Carries(s2c, server, crcvd, ssent)
        BY <1>0, <2>2, <2>3 DEF Clean, Shared
      <3>2. s2c \in Directions /\ server \in Keys /\ crcvd \in Nat /\ ssent \in Nat
        BY <1>0 DEF TypeOK, Types
      <3>3. Carries(s2c', server, crcvd, ssent + 1)
        BY Zenon, <2>3, <3>1, <3>2, CarriesOneMore
      <3>4. QED
        BY Zenon, <2>2, <3>1, <3>3 DEF Clean, Carries
    <2>4. QED
      BY <1>1, <2>1, <2>3 DEF Shared
  <1>13. QED
    BY Zenon, <1>3, <1>4, <1>5, <1>6, <1>7, <1>8, <1>9, <1>10, <1>11, <1>12
       DEF Next, ClientStep, ServerStep

(* Where a HostAck or a notice may be found after a step.                  *)
AckUnread == \E i \in DOMAIN c2s.frames : c2s.frames[i] = Ack(client)

(* An unread HostAck stays unread when another frame is taken.             *)
LEMMA AckStays ==
  ASSUME Inv, TakeC2s, UNCHANGED client, Head(c2s.frames) # Ack(client), AckUnread
  PROVE  AckUnread'
  <1>1. c2s \in Directions /\ c2s.frames # <<>> /\ c2s' = [c2s EXCEPT !.frames = Tail(@)]
    BY DEF Inv, TypeOK, Types, TakeC2s
  <1>2. /\ Head(c2s.frames) = c2s.frames[1]
        /\ \A i \in DOMAIN c2s.frames :
             i # 1 => i - 1 \in DOMAIN c2s'.frames /\ c2s'.frames[i - 1] = c2s.frames[i]
    BY SMTT(30), <1>1, PopFacts
  <1>3. PICK i \in DOMAIN c2s.frames : c2s.frames[i] = Ack(client)
    BY DEF AckUnread
  <1>4. QED
    BY <1>2, <1>3 DEF AckUnread

(* A frame that is no message of the session, at the end of a direction,   *)
(* tells of its end.                                                       *)
LEMMA EndTells ==
  ASSUME Inv, s2c' \in Directions, UNCHANGED client, NEW f,
         s2c'.resync \/ EndsWith(s2c', Empty) \/ EndsWith(s2c', f),
         ~(f.type = "message" /\ f.keys = client)
  PROVE  Told'
  <1>1. s2c'.frames \in Seq(FrameSet)
    BY Parts
  <1>2. QED
    BY <1>1, SpecialFields DEF Told, EndsWith

(* Every step keeps a client whose session is lost about to learn of it.   *)
LEMMA StepKeepsLostIsTold ==
  ASSUME Inv, Next
  PROVE  LostIsTold'
  <1> USE DEF Inv
  <1>0. /\ TypeOK /\ WritersRecover /\ Places /\ KeysAreFresh
        /\ cbound /\ ~Shared => Told \/ AckUnread
    BY Zenon DEF LostIsTold, AckUnread
  <1>a. SUFFICES cbound' /\ ~Shared' => Told' \/ AckUnread'
    BY Zenon DEF LostIsTold, AckUnread
  <1>1. ASSUME ~cbound' \/ Told' \/ AckUnread' PROVE cbound' /\ ~Shared' => Told' \/ AckUnread'
    BY Zenon, <1>1
  <1>2. ASSUME UNCHANGED <<c2s, s2c, client, cbound, server, sbound>>
        PROVE  cbound' /\ ~Shared' => Told' \/ AckUnread'
    BY <1>0, <1>2 DEF Shared, Told, AckUnread
  <1>3. CASE Connect \/ SendHello \/ SkipStale \/ ConnectTimeout \/ ClientDisconnect \/ ClientReadFails
    <2>1. ~cbound'
      BY <1>0, <1>3 DEF Connect, SendHello, SkipStale, ConnectTimeout, ClientDisconnect,
         ClientReadFails, ClientEnds,
         clientVars, Places
    <2>2. QED
      BY Zenon, <2>1
  <1>4. CASE TakeArk
    <2> DEFINE keys == Head(s2c.frames).keys
    <2>1. \/ ~cbound'
          \/ client' = keys /\ c2s'.frames = Append(c2s.frames, Ack(keys))
      BY Zenon, <1>0, <1>4, AckWrites DEF Places, TakeArk
    <2>2. keys \in Keys
      BY Zenon, <1>4, ArkNamesAttempt
    <2> HIDE DEF keys
    <2>3. c2s.frames \in Seq(FrameSet) /\ Ack(keys) \in FrameSet
      BY SMTT(30), <1>0, <2>2, Parts, FramesAreFrames DEF TypeOK, Types, Ack
    <2>4. CASE client' = keys /\ c2s'.frames = Append(c2s.frames, Ack(keys))
      BY <2>3, <2>4, HeldAppend DEF AckUnread
    <2>5. QED
      BY SMTT(30), <2>1, <2>4
  <1>5. CASE ClientSend
    <2> DEFINE message == Message(client, csent + 1)
    <2>1. \/ ~cbound'
          \/ c2s'.frames = Append(c2s.frames, message)
      BY Zenon, <1>0, <1>5, ClientMessageWrites
    <2>2. UNCHANGED <<s2c, client, server, sbound>> /\ cbound
      BY Zenon, <1>5 DEF ClientSend, serverVars
    <2>3. c2s.frames \in Seq(FrameSet) /\ message \in FrameSet
      BY <1>0, Parts, FramesAreFrames DEF TypeOK, Types, Message
    <2> HIDE DEF message
    <2>4. CASE c2s'.frames = Append(c2s.frames, message)
      <3>1. AckUnread => AckUnread'
        BY <2>2, <2>3, <2>4, HeldAppend DEF AckUnread
      <3>2. Told => Told'
        BY Zenon, <2>2 DEF Told
      <3>3. QED
        BY <1>0, <2>2, <3>1, <3>2 DEF Shared
    <2>5. QED
      BY <2>1, <2>4
  (* A notice is not a message of the session, so it is not taken as one.  *)
  <1>6. CASE ClientRecv
    <2>1. CASE cbound /\ Head(s2c.frames) = Message(client, crcvd + 1)
      <3>1. /\ UNCHANGED <<c2s, client, cbound, server, sbound>>
            /\ s2c \in Directions /\ s2c.frames # <<>> /\ s2c' = [s2c EXCEPT !.frames = Tail(@)]
        BY <1>0, <1>6, <2>1 DEF ClientRecv, TakeS2c, serverVars, Message, TypeOK, Types
      <3>2. /\ Head(s2c.frames) = s2c.frames[1] /\ s2c'.resync = s2c.resync
            /\ \A i \in DOMAIN s2c.frames :
                 i # 1 => i - 1 \in DOMAIN s2c'.frames /\ s2c'.frames[i - 1] = s2c.frames[i]
        BY SMTT(30), <3>1, PopFacts
      <3>3. s2c.frames[1].type = "message" /\ s2c.frames[1].keys = client
        BY <2>1, <3>2, FrameFields DEF Message
      <3>4. Told => Told'
        BY ZenonT(30), <3>1, <3>2, <3>3 DEF Told
      <3>5. AckUnread => AckUnread'
        BY <3>1 DEF AckUnread
      <3>6. QED
        BY Zenon, <1>0, <3>1, <3>4, <3>5 DEF Shared
    <2>2. CASE ~(cbound /\ Head(s2c.frames) = Message(client, crcvd + 1))
      BY Zenon, <1>1, <1>6, <2>2 DEF ClientRecv, ClientEnds, Message
    <2>3. QED
      BY <2>1, <2>2
  (* Frames other than the HostAck are taken while the session is lost.    *)
  <1>7. ASSUME UNCHANGED <<s2c, client, cbound>>, TakeC2s, cbound => ~Shared \/ Shared',
               Head(c2s.frames) # Ack(client)
        PROVE  cbound' /\ ~Shared' => Told' \/ AckUnread'
    <2>1. Told => Told'
      BY Zenon, <1>7 DEF Told
    <2>2. AckUnread => AckUnread'
      BY Zenon, <1>7, AckStays
    <2>3. QED
      BY Zenon, <1>0, <1>7, <2>1, <2>2
  <1>8. CASE ServerReset
    <2>1. UNCHANGED <<s2c, client, cbound>> /\ TakeC2s /\ Head(c2s.frames) = Empty
      BY <1>8 DEF ServerReset, clientVars
    <2>2. c2s \in Directions /\ c2s.frames # <<>> /\ c2s' = [c2s EXCEPT !.frames = Tail(@)]
      BY <1>0, <2>1 DEF TakeC2s, TypeOK, Types
    <2>3. c2s.frames[1] = Empty /\ 1 \in DOMAIN c2s.frames
      BY Zenon, <2>1, <2>2, PopFacts
    <2>4. ~Shared
      BY <2>3, SpecialFields, FrameFields DEF Clean, Carries, Message
    <2>5. Head(c2s.frames) # Ack(client)
      BY <2>1, SpecialFields, FrameFields DEF Ack
    <2>6. QED
      BY Zenon, <1>7, <2>1, <2>4, <2>5
  <1>9. CASE StartHandshake \/ HandshakeTimeout
    BY Zenon, <1>2, <1>9 DEF StartHandshake, HandshakeTimeout, clientVars
  <1>10. CASE ServerMessage
    <2>1. /\ UNCHANGED <<s2c, client, cbound, server, sbound>> /\ TakeC2s
          /\ Head(c2s.frames).type = "message"
      BY <1>10, FrameFields DEF ServerMessage, ServerAccepts, clientVars
    <2>2. Head(c2s.frames) # Ack(client)
      BY <2>1, FrameFields DEF Ack
    <2>3. QED
      BY Zenon, <1>7, <2>1, <2>2 DEF Shared
  <1>11. CASE ServerRefuses \/ HandshakeFails \/ Disconnect \/ SenderDisconnect
    <2>1. s2c' \in Directions /\ (s2c'.resync \/ EndsWith(s2c', Empty)) /\ UNCHANGED client
      BY Zenon, <1>0, <1>11, Drops, DropWrites
      DEF ServerRefuses, HandshakeFails, Disconnect, SenderDisconnect, Grown, clientVars
    <2>2. Told'
      BY Zenon, <2>1, EndTells, SpecialFields
    <2>3. QED
      BY SMTT(30), <2>2
  <1>12. CASE SkipReset \/ Restart
    <2>1. UNCHANGED <<s2c, client, cbound, server, sbound>> /\ TakeC2s /\ Head(c2s.frames) = Empty
      BY Zenon, <1>12 DEF SkipReset, Restart, clientVars, serverVars
    <2>2. Head(c2s.frames) # Ack(client)
      BY SMTT(30), <2>1, SpecialFields, FrameFields DEF Ack
    <2>3. QED
      BY Zenon, <1>7, <2>1, <2>2 DEF Shared
  <1>13. CASE TakeHello
    <2> DEFINE keys == <<Head(c2s.frames).keys[1], answer + 1>>
    <2>1. /\ s2c' \in Directions
          /\ s2c'.resync \/ EndsWith(s2c', Empty) \/ EndsWith(s2c', Ark(keys))
      BY SMTT(30), <1>0, <1>13, ArkWrites DEF Grown
    <2>2. Ark(keys).type = "ark"
      BY FrameFields DEF Ark
    <2>3. UNCHANGED client
      BY Zenon, <1>13 DEF TakeHello, clientVars
    <2>4. Told'
      BY Zenon, <2>1, <2>2, <2>3, EndTells
    <2>5. QED
      BY <2>4
  <1>14. CASE TakeAck
    <2>1. /\ UNCHANGED <<s2c, client, cbound>> /\ server' = offer /\ sbound' = TRUE
          /\ TakeC2s /\ Head(c2s.frames) = Ack(offer) /\ ~sbound
      BY Zenon, <1>0, <1>14 DEF TakeAck, MyAck, Ack, clientVars, Places
    <2>2. CASE offer = client
      BY Zenon, <2>1, <2>2 DEF Shared
    <2>3. CASE offer # client
      <3>1. Ack(offer) # Ack(client)
        BY <2>3, FrameFields DEF Ack
      <3>2. QED
        BY Zenon, <1>7, <2>1, <3>1 DEF Shared
    <2>4. QED
      BY Zenon, <2>2, <2>3
  <1>15. CASE ServerSend
    <2> DEFINE message == Message(server, ssent + 1)
    <2>1. /\ s2c' \in Directions
          /\ s2c'.resync \/ EndsWith(s2c', Empty) \/ EndsWith(s2c', message)
          /\ sbound' = sbound \/ s2c'.resync \/ EndsWith(s2c', Empty)
      BY Zenon, <1>0, <1>15, ServerMessageWrites DEF Grown
    <2>2. UNCHANGED <<client, cbound, server>> /\ sbound
      BY Zenon, <1>15 DEF ServerSend, clientVars
    <2>3. message.keys = server
      BY FrameFields DEF Message
    <2> HIDE DEF message
    <2>4. CASE server # client
      BY Zenon, <2>1, <2>2, <2>3, <2>4, EndTells
    <2>5. CASE s2c'.resync \/ EndsWith(s2c', Empty)
      BY <2>1, <2>2, <2>5, EndTells, SpecialFields
    <2>6. CASE server = client /\ sbound' = sbound
      BY <2>2, <2>6 DEF Shared
    <2>7. QED
      BY <2>1, <2>4, <2>5, <2>6
  <1>16. QED
    BY Zenon, <1>3, <1>4, <1>5, <1>6, <1>8, <1>9, <1>10, <1>11, <1>12, <1>13, <1>14, <1>15
    DEF Next, ClientStep, ServerStep
----------------------------------------------------------------------------
(* The invariant holds of two sides that have not spoken.                  *)
LEMMA Initially ==
  ASSUME Init
  PROVE  Inv
  <1>1. /\ c2s \in Directions /\ s2c \in Directions
        /\ c2s.frames = <<>> /\ s2c.frames = <<>> /\ c2s.tail = Empty /\ s2c.tail = Empty
        /\ c2s.resync = FALSE /\ s2c.resync = FALSE
    BY SpecialFrames DEF Init, Directions
  <1>2. Held(c2s) = {Empty} /\ Held(s2c) = {Empty}
    BY <1>1 DEF Held
  <1>3. TypeOK
    BY Zenon, <1>1 DEF Init, TypeOK, Types, Flags, NoKeys, Keys
  <1>4. WritersRecover /\ Places
    BY Zenon, <1>1 DEF Init, WritersRecover, Places
  <1>5. KeysAreFresh
    <2>1. /\ client = NoKeys /\ server = NoKeys /\ offer = NoKeys
          /\ attempt = 0 /\ answer = 0 /\ connecting = "no"
      BY Zenon DEF Init
    <2>2. QED
      BY <1>2, <2>1, SpecialFields DEF KeysAreFresh
  <1>6. NothingAfterArk /\ MessagesFollowAck /\ Clean /\ LostIsTold
    BY DEF Init, NothingAfterArk, MessagesFollowAck, Clean, Shared, LostIsTold
  <1>7. QED
    BY Zenon, <1>3, <1>4, <1>5, <1>6 DEF Inv

(* A step that changes nothing keeps the invariant.                        *)
LEMMA Stutters ==
  ASSUME Inv, UNCHANGED vars
  PROVE  Inv'
  BY ZenonT(60)
     DEF Inv, TypeOK, Types, Flags, WritersRecover, Places, KeysAreFresh, NothingAfterArk,
     MessagesFollowAck, Clean, LostIsTold, Shared, Told, Carries, Held, vars, clientVars, serverVars

(* The invariant holds throughout.                                         *)
LEMMA InvHolds == Spec => []Inv
  <1>1. Inv /\ [Next]_vars => Inv'
    <2>1. ASSUME Inv, Next PROVE Inv'
      BY <2>1, StepKeepsFlags, StepKeepsPlaces, StepKeepsKeysFresh, StepKeepsNothingAfterArk,
         StepKeepsMessagesFollowAck, StepKeepsClean, StepKeepsLostIsTold DEF Inv, TypeOK
    <2>2. QED
      BY <2>1, Stutters
  <1>2. QED
    BY <1>1, Initially, PTL DEF Spec

(* When both ends hold the same session, the stream carries its sealed and *)
(* unopened messages in order and nothing that would end it, after any     *)
(* number of attempts and failures.                                        *)
THEOREM AgreedSessionsAreClean == Spec => []SharedSessionIsClean
  <1>1. ASSUME Inv PROVE SharedSessionIsClean
    <2> SUFFICES ASSUME client = server, client # NoKeys, cbound, sbound
                 PROVE  /\ c2s.frames = Messages(client, srcvd, csent) /\ c2s.tail = Empty
                        /\ s2c.frames = Messages(server, crcvd, ssent) /\ s2c.tail = Empty
      BY DEF SharedSessionIsClean
    <2>1. c2s.tail = Empty /\ s2c.tail = Empty
      BY <1>1 DEF Inv, WritersRecover, Places
    <2>2. Carries(c2s, client, srcvd, csent) /\ Carries(s2c, server, crcvd, ssent)
      BY Zenon, <1>1 DEF Inv, Clean, Shared
    <2>3. c2s.frames \in Seq(FrameSet) /\ s2c.frames \in Seq(FrameSet)
      BY Zenon, <1>1, Parts DEF Inv, TypeOK, Types
    <2>4. c2s.frames = Messages(client, srcvd, csent)
      BY <2>2, <2>3 DEF Carries, Messages, Message
    <2>5. s2c.frames = Messages(server, crcvd, ssent)
      BY <2>2, <2>3 DEF Carries, Messages, Message
    <2>6. QED
      BY <2>1, <2>4, <2>5
  <1>2. QED
    BY <1>1, InvHolds, PTL

(* A client that holds a session its server left is told by something the  *)
(* server wrote or will write next, or its HostAck is still unread.        *)
THEOREM EveryLossIsTold == Spec => []LostSessionIsTold
  <1>1. ASSUME Inv PROVE LostSessionIsTold
    BY <1>1 DEF Inv, LostIsTold, Shared, Told, LostSessionIsTold, Ack
  <1>2. QED
    BY <1>1, InvHolds, PTL
============================================================================
