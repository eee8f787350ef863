--------------------------- MODULE KeyboardProofs ---------------------------
(***************************************************************************)
(* Proofs about Keyboard, for any keys, any owners and rings of any size.  *)
(***************************************************************************)
EXTENDS Keyboard, FiniteSetTheorems, SequenceTheorems, TLAPS

\* The types that hold even where two threads count the bytes of the ring at
\* the same time
Types ==
    /\ ref \in [KEY -> OWNER \cup {NC}] /\ keyrep \in BOOLEAN
    /\ todo \in Seq(Byte) /\ put \in {"idle", "stored", "loaded", "counted", "refused"}
    /\ buf \in [0 .. BUF - 1 -> Byte \cup {NoByte}] /\ bufpos \in 0 .. BUF - 1
    /\ ctr \in Seq(Reply) /\ Len(ctr) =< CTR
    /\ full \in BOOLEAN /\ data \in Byte \cup Reply \cup {NoByte}
    /\ armed \in BOOLEAN /\ called \in BOOLEAN
    /\ take \in {"idle", "loaded", "counted"}
    /\ irq \in BOOLEAN /\ servicing \in BOOLEAN
    /\ reqparam \in BOOLEAN /\ mode \in {"repeat", "led", "type", "unknown"}
    /\ down \subseteq KEY /\ awaited \in Seq(Reply)
    /\ lost \subseteq KEY /\ stale \in BOOLEAN

\* The byte that is put in is the first of those to be sent.
PutInv == put # "idle" => todo # << >>

\* While the callback is at work it is called.
TakeInv == take # "idle" => called

\* What is to be taken out has the event armed, or a thread about to arm it
ServedInv ==
    buffers > 0 \/ ctr # << >> => armed \/ called \/ put = "counted"

\* The invariant of either build
CommonInv == Types /\ PutInv /\ TakeInv /\ ServedInv

-----------------------------------------------------------------------------
(***************************************************************************)
(* Types                                                                   *)
(***************************************************************************)

LEMMA ByteFacts ==
    /\ \A k \in KEY : Make(k) \in Byte /\ Break(k) \in Byte
    /\ \A b \in Byte : b \notin Reply /\ b # NoByte
    /\ \A b \in Reply : b # NoByte
<1>1. \A k \in KEY : Make(k) \in Byte /\ Break(k) \in Byte BY DEF Make, Break, Byte
<1>2. NoByte \notin Byte \cup Reply BY KeyboardAssumption
<1>3. \A b \in Byte : b \notin Reply BY DEF Byte, Reply
<1> QED BY <1>1, <1>2, <1>3

\* SetToSeq lists the keys that are held, each once.
LEMMA HeldFacts ==
    /\ Cardinality(Held) \in Nat /\ Cardinality(Held) =< BUF
    /\ Held \subseteq KEY
    /\ Held # {} => Cardinality(Held) > 0
    /\ SetToSeq(Held) \in [1 .. Cardinality(Held) -> Held]
    /\ \A i, j \in 1 .. Cardinality(Held) : SetToSeq(Held)[i] = SetToSeq(Held)[j] => i = j
    /\ \A k \in Held : \E i \in 1 .. Cardinality(Held) : SetToSeq(Held)[i] = k
<1> DEFINE H == Held  n == Cardinality(H)  f == SetToSeq(H)
<1>1. H \subseteq KEY BY DEF Held
<1>2. IsFiniteSet(KEY) /\ Cardinality(KEY) =< BUF /\ BUF \in Nat BY KeyboardAssumption
<1> HIDE DEF H
<1>3. /\ IsFiniteSet(H) /\ n \in Nat /\ Cardinality(KEY) \in Nat
      /\ Cardinality(H) =< Cardinality(KEY)
      /\ ExistsBijection(1 .. n, H)
  BY <1>1, <1>2, FS_Subset, FS_CardinalityType
<1>4. PICK g \in Bijection(1 .. n, H) : TRUE BY <1>3 DEF ExistsBijection
<1>5. g \in [1 .. n -> H] /\ IsInjective(g) BY <1>4 DEF Bijection, Injection
<1>6. f \in [1 .. n -> H] /\ IsInjective(f) BY <1>5 DEF SetToSeq
<1> HIDE DEF f
<1>7. f \in Injection(1 .. n, H) BY <1>6 DEF Injection
<1>8. Cardinality(1 .. n) = n /\ IsFiniteSet(1 .. n) BY <1>3, FS_Interval
<1>9. f \in Surjection(1 .. n, H) BY <1>3, <1>7, <1>8, FS_Injection
<1>10. \A k \in H : \E i \in 1 .. n : f[i] = k BY <1>9 DEF Surjection
<1>11. \A i, j \in 1 .. n : f[i] = f[j] => i = j BY <1>6 DEF IsInjective
<1>12. H # {} => n > 0 BY <1>3, <1>10
<1>13. n =< BUF BY <1>2, <1>3
<1> QED BY <1>1, <1>3, <1>6, <1>10, <1>11, <1>12, <1>13 DEF f, H

\* What a reset sends
LEMMA ResentFacts ==
    /\ Resent \in Seq(Byte) /\ Len(Resent) = Cardinality(Held) /\ Len(Resent) =< BUF
    /\ Len(Resent) \in Nat /\ DOMAIN Resent = 1 .. Len(Resent)
    /\ Resent # << >> <=> Len(Resent) > 0
    /\ \A i \in 1 .. Len(Resent) : Resent[i] \in Byte /\ Resent[i].key \in Held /\ ~ Resent[i].up
    /\ \A i, j \in 1 .. Len(Resent) : Resent[i] = Resent[j] => i = j
    /\ \A k \in Held : \E i \in 1 .. Len(Resent) : Resent[i] = Make(k)
<1> DEFINE n == Cardinality(Held)  f == SetToSeq(Held)
<1>1. /\ n \in Nat /\ n =< BUF /\ Held \subseteq KEY
      /\ f \in [1 .. n -> Held]
      /\ \A i, j \in 1 .. n : f[i] = f[j] => i = j
      /\ \A k \in Held : \E i \in 1 .. n : f[i] = k
  BY HeldFacts
<1>2. Resent = [i \in 1 .. n |-> Make(f[i])] BY DEF Resent
<1> HIDE DEF n, f
<1>3. \A i \in 1 .. n : Make(f[i]) \in Byte /\ Make(f[i]).key = f[i] /\ ~ Make(f[i]).up
  BY <1>1, ByteFacts DEF Make
<1>4. Resent \in Seq(Byte) /\ Len(Resent) = n /\ DOMAIN Resent = 1 .. n BY <1>1, <1>2, <1>3
<1>5. \A i \in 1 .. n : Resent[i] = Make(f[i]) BY <1>2
<1>6. \A i \in 1 .. n : Resent[i] \in Byte /\ Resent[i].key \in Held /\ ~ Resent[i].up
  BY <1>1, <1>3, <1>5
<1>7. \A i, j \in 1 .. n : Resent[i] = Resent[j] => i = j BY <1>1, <1>3, <1>5
<1>8. \A k \in Held : \E i \in 1 .. n : Resent[i] = Make(k) BY <1>1, <1>5
<1>9. Resent # << >> <=> n > 0 BY <1>1, <1>4
<1>10. n = Cardinality(Held) BY DEF n
<1> QED BY <1>1, <1>4, <1>6, <1>7, <1>8, <1>9, <1>10

LEMMA Tuples ==
    ASSUME NEW T, NEW a \in T, NEW b \in T, NEW c \in T
    PROVE  /\ <<a>> \in Seq(T) /\ Len(<<a>>) = 1 /\ <<a>> # << >>
           /\ <<a, b>> \in Seq(T) /\ Len(<<a, b>>) = 2 /\ <<a, b>> # << >>
           /\ <<a, b, c>> \in Seq(T) /\ Len(<<a, b, c>>) = 3 /\ <<a, b, c>> # << >>
<1>1. <<a>> \in Seq(T) /\ Len(<<a>>) = 1 /\ <<a>> # << >> OBVIOUS
<1>2. <<a, b>> \in Seq(T) /\ Len(<<a, b>>) = 2 /\ <<a, b>> # << >> OBVIOUS
<1>3. <<a, b, c>> \in Seq(T) /\ Len(<<a, b, c>>) = 3 /\ <<a, b, c>> # << >> OBVIOUS
<1> QED BY <1>1, <1>2, <1>3

LEMMA ReplyFacts ==
    /\ \A c \in COMMANDS : /\ RepliesTo(c) \in Seq(Reply) /\ Len(RepliesTo(c)) \in 1 .. 3
                           /\ RepliesTo(c) # << >> /\ Len(RepliesTo(c)) =< 3
    /\ \A p \in Parameter : /\ RepliesToParameter(p) \in Seq(Reply)
                            /\ Len(RepliesToParameter(p)) \in 0 .. 2
                            /\ RepliesToParameter(p) = << >> <=> Len(RepliesToParameter(p)) = 0
                            /\ Len(RepliesToParameter(p)) =< 3
<1>1. Says("ack") \in Reply /\ Says("nak") \in Reply /\ Says("led") \in Reply /\ Says("type") \in Reply
  BY DEF Says, Reply
<1>2. ASSUME NEW c \in COMMANDS
      PROVE  /\ RepliesTo(c) \in Seq(Reply) /\ Len(RepliesTo(c)) \in 1 .. 3
             /\ RepliesTo(c) # << >> /\ Len(RepliesTo(c)) =< 3
  <2>1. \/ RepliesTo(c) = <<Says("ack")>>
        \/ RepliesTo(c) = <<Says("ack"), Says("type"), Says("type")>>
        \/ RepliesTo(c) = <<Says("nak")>>
    BY <1>2, KeyboardAssumption DEF RepliesTo
  <2>2. CASE RepliesTo(c) = <<Says("ack")>> BY <1>1, <2>2, Tuples
  <2>3. CASE RepliesTo(c) = <<Says("ack"), Says("type"), Says("type")>> BY <1>1, <2>3, Tuples
  <2>4. CASE RepliesTo(c) = <<Says("nak")>> BY <1>1, <2>4, Tuples
  <2> QED BY <2>1, <2>2, <2>3, <2>4
<1>3. ASSUME NEW p \in Parameter
      PROVE  /\ RepliesToParameter(p) \in Seq(Reply)
             /\ Len(RepliesToParameter(p)) \in 0 .. 2
             /\ RepliesToParameter(p) = << >> <=> Len(RepliesToParameter(p)) = 0
             /\ Len(RepliesToParameter(p)) =< 3
  <2>1. \/ RepliesToParameter(p) = <<Says("ack")>>
        \/ RepliesToParameter(p) = <<Says("ack"), Says("led")>>
        \/ RepliesToParameter(p) = << >>
    BY DEF RepliesToParameter
  <2>2. << >> \in Seq(Reply) /\ Len(<< >>) = 0 BY EmptySeq
  <2>3. CASE RepliesToParameter(p) = <<Says("ack")>> BY <1>1, <2>3, Tuples
  <2>4. CASE RepliesToParameter(p) = <<Says("ack"), Says("led")>> BY <1>1, <2>4, Tuples
  <2>5. CASE RepliesToParameter(p) = << >> BY <2>2, <2>5
  <2> QED BY <2>1, <2>3, <2>4, <2>5
<1> QED BY <1>2, <1>3

LEMMA UnreadType == ASSUME Types PROVE Unread \in Seq(Reply)
<1>1. CASE data \in Reply
  <2>1. <<data>> \in Seq(Reply) BY <1>1
  <2> QED BY <2>1, EmptySeq DEF Unread
<1>2. CASE data \notin Reply BY <1>2, EmptySeq DEF Unread, IsReply
<1> QED BY <1>1, <1>2

LEMMA AwaitsType ==
    ASSUME Types, NEW replies \in Seq(Reply), Awaits(replies)
    PROVE  awaited' \in Seq(Reply)
<1>1. Unread \in Seq(Reply) BY UnreadType
<1>2. Unread \o replies \in Seq(Reply) BY <1>1, ConcatProperties
<1> QED BY <1>2 DEF Awaits, Types

\* The replies to one command all fit.
LEMMA AnsweredFacts ==
    ASSUME NEW replies \in Seq(Reply), Len(replies) =< 3, Types, Answered(replies)
    PROVE  /\ replies # << >> => ctr' = replies /\ armed'
           /\ replies = << >> => UNCHANGED <<ctr, armed>>
           /\ ctr' \in Seq(Reply) /\ Len(ctr') =< CTR /\ armed' \in BOOLEAN
<1>1. CTR \in Nat /\ 3 =< CTR BY KeyboardAssumption
<1>2. CASE replies = << >> BY <1>2 DEF Answered, Types
<1>3. CASE replies # << >>
  <2> DEFINE n == Len(replies)
  <2>0. Left \o replies = replies BY DEF Left
  <2>1. armed' = (armed \/ ~ armed) BY <1>3 DEF Answered, MustArm
  <2>2. ctr' = SubSeq(replies, 1, IF n < CTR THEN n ELSE CTR) BY <1>3, <2>0 DEF Answered
  <2>3. n \in Nat /\ n =< 3 OBVIOUS
  <2> HIDE DEF n
  <2>4. (IF n < CTR THEN n ELSE CTR) = n BY <1>1, <2>3
  <2>5. ctr' = SubSeq(replies, 1, n) BY <2>2, <2>4
  <2>6. SubSeq(replies, 1, Len(replies)) = replies OBVIOUS
  <2>7. ctr' = replies BY <2>5, <2>6 DEF n
  <2>8. Len(replies) =< CTR BY <1>1, <2>3 DEF n
  <2>9. armed' = TRUE BY <2>1, Zenon
  <2> QED BY <1>3, <2>7, <2>8, <2>9
<1> QED BY <1>2, <1>3


-----------------------------------------------------------------------------
(***************************************************************************)
(* Types                                                                   *)
(***************************************************************************)

LEMMA TailFacts ==
    ASSUME NEW T, NEW s \in Seq(T), s # << >>
    PROVE  /\ Head(s) \in T /\ Head(s) = s[1]
           /\ Tail(s) \in Seq(T) /\ Len(Tail(s)) = Len(s) - 1 /\ Len(s) \in Nat \ {0}
           /\ \A i \in 1 .. Len(s) - 1 : Tail(s)[i] = s[i + 1]
  OBVIOUS

LEMMA PlaceType ==
    ASSUME Types
    PROVE  /\ Place(1) \in 0 .. BUF - 1
           /\ BUF \in Nat \ {0}
  BY KeyboardAssumption DEF Types, Place

LEMMA DownBytesType ==
    ASSUME NEW k \in KEY
    PROVE  /\ DownBytes(k) \in Seq(Byte)
           /\ <<Break(k)>> \in Seq(Byte)
<1>1. Make(k) \in Byte /\ Break(k) \in Byte BY ByteFacts
<1>2. DownBytes(k) \in {<< >>, <<Make(k)>>, <<Break(k), Make(k)>>} BY DEF DownBytes
<1> QED BY <1>1, <1>2, Tuples, EmptySeq

LEMMA HostTypes == ASSUME Types, Host PROVE Types'
<1> USE DEF Types
<1>1. UNCHANGED <<put, ring, ctr, full, data, event, callback, line, command, guest>>
      /\ todo' \in Seq(Byte) /\ ref' \in [KEY -> OWNER \cup {NC}]
  <2>1. CASE \E k \in KEY, owner \in OWNER : KeyDown(k, owner)
    BY <2>1, DownBytesType DEF KeyDown
  <2>2. CASE \E k \in KEY, owner \in OWNER : KeyUp(k, owner)
    BY <2>2, DownBytesType DEF KeyUp
  <2>3. CASE AllRelease
    <3> DEFINE n == Cardinality(Held)  f == SetToSeq(Held)
    <3>1. n \in Nat /\ f \in [1 .. n -> Held] /\ Held \subseteq KEY BY HeldFacts
    <3>2. todo' = [i \in 1 .. n |-> Break(f[i])] BY <2>3 DEF AllRelease
    <3> HIDE DEF n, f
    <3>3. \A i \in 1 .. n : Break(f[i]) \in Byte BY <3>1, ByteFacts
    <3>4. todo' \in Seq(Byte) BY <3>1, <3>2, <3>3
    <3> QED BY <2>3, <3>4 DEF AllRelease
  <2> QED BY <2>1, <2>2, <2>3 DEF Host
<1> QED BY <1>1 DEF ring, event, callback, line, command, guest

LEMMA SendTypes == ASSUME Types, PutInv, Send PROVE Types'
<1> USE DEF Types
<1>1. CASE SendStore
  <2>1. /\ todo # << >>
        /\ UNCHANGED <<ref, todo, bufpos, buffers, ctr, full, data, event, callback, line,
                       command, down, awaited, stale>>
        /\ \/ /\ buf' = [buf EXCEPT ![Place(buffers)] = Head(todo)]
              /\ put' = "stored" /\ lost' \in {lost, lost \ {Head(todo).key}}
           \/ put' = "refused" /\ UNCHANGED buf /\ lost' = lost \cup {Head(todo).key}
    BY <1>1 DEF SendStore
  <2>2. Head(todo) \in Byte BY <2>1, TailFacts
  <2>3. buf' \in [0 .. BUF - 1 -> Byte \cup {NoByte}] BY <2>1, <2>2
  <2>4. put' \in {"idle", "stored", "loaded", "counted", "refused"} BY <2>1
  <2>5. lost' \subseteq KEY
    <3>1. Head(todo).key \in KEY BY <2>2 DEF Byte
    <3> QED BY <2>1, <3>1
  <2> QED BY <2>1, <2>3, <2>4, <2>5 DEF event, callback, line, command
<1>5. CASE SendRefused
  <2>1. todo' \in Seq(Byte)
    <3>1. todo # << >> /\ todo' = Tail(todo) BY <1>5 DEF SendRefused, PutInv
    <3> QED BY <3>1, TailFacts
  <2> QED BY <1>5, <2>1 DEF SendRefused, ring, event, callback, line, command, guest
<1>2. CASE SendLoad
  BY <1>2 DEF SendLoad, ring, event, callback, line, command, guest
<1>3. CASE SendCount
  BY <1>3 DEF SendCount, event, callback, line, command, guest
<1>4. CASE SendArm
  <2>1. todo' \in Seq(Byte)
    <3>1. todo # << >> /\ todo' = Tail(todo) BY <1>4 DEF SendArm, PutInv
    <3> QED BY <3>1, TailFacts
  <2> QED BY <1>4, <2>1 DEF SendArm, MustArm, ring, callback, line, command, guest
<1> QED BY <1>1, <1>2, <1>3, <1>4, <1>5 DEF Send

LEMMA CallbackTypes == ASSUME Types, Callback PROVE Types'
<1> USE DEF Types
<1>1. CASE KeyboardCallback
  <2>1. UNCHANGED <<host, ring, command, guest>> BY <1>1 DEF KeyboardCallback
  <2>2. \/ UNCHANGED <<armed, line, ctr, full, data, take>> /\ called' = FALSE
        \/ UNCHANGED <<ctr, full, data, take>> /\ RaiseAndArm
        \/ /\ ctr # << >> /\ full' = TRUE /\ data' = Head(ctr) /\ ctr' = Tail(ctr)
           /\ RaiseAndArm /\ UNCHANGED take
        \/ full' = TRUE /\ take' = "loaded" /\ UNCHANGED <<ctr, data, line, event>>
    BY <1>1 DEF KeyboardCallback, callback
  <2>3. /\ ctr' \in Seq(Reply) /\ Len(ctr') =< CTR
        /\ data' \in Byte \cup Reply \cup {NoByte}
    <3>1. CASE UNCHANGED <<ctr, data>> BY <3>1
    <3>2. CASE ctr # << >> /\ data' = Head(ctr) /\ ctr' = Tail(ctr)
      <4>1. CTR \in Nat BY KeyboardAssumption
      <4>2. /\ Head(ctr) \in Reply /\ Tail(ctr) \in Seq(Reply)
            /\ Len(Tail(ctr)) = Len(ctr) - 1 /\ Len(ctr) \in Nat
        BY <3>2, TailFacts
      <4> QED BY <3>2, <4>1, <4>2
    <3> QED BY <2>2, <3>1, <3>2
  <2>4. /\ full' \in BOOLEAN /\ armed' \in BOOLEAN /\ called' \in BOOLEAN
        /\ take' \in {"idle", "loaded", "counted"}
        /\ irq' \in BOOLEAN /\ servicing' \in BOOLEAN
    BY <2>2 DEF RaiseAndArm, line, event
  <2> QED BY <2>1, <2>3, <2>4 DEF host, ring, command, guest
<1>2. CASE TakeCount
  BY <1>2 DEF TakeCount, host, event, line, command, guest
<1>3. CASE TakeByte
  <2>1. bufpos' \in 0 .. BUF - 1 /\ buf[bufpos] \in Byte \cup {NoByte}
    BY <1>3, PlaceType DEF TakeByte
  <2> QED BY <1>3, <2>1 DEF TakeByte, RaiseAndArm, host, command, guest
<1> QED BY <1>1, <1>2, <1>3 DEF Callback

LEMMA ResetTypes == ASSUME Types, KeyboardResetsignal PROVE Types'
<1> USE DEF Types
<1>1. /\ ctr' = << >> /\ full' = FALSE /\ reqparam' = FALSE
      /\ armed' = (Resent # << >>) /\ down' = {} /\ awaited' = << >>
      /\ stale' = (irq \/ servicing) /\ lost' \subseteq KEY
      /\ UNCHANGED <<host, bufpos, data, called, callback, line, keyrep, mode>>
  BY DEF KeyboardResetsignal
<1>2. buf' \in [0 .. BUF - 1 -> Byte \cup {NoByte}]
  <2> DEFINE new(i) == IF \E j \in DOMAIN Resent : i = Place(j - 1)
                       THEN LET j == CHOOSE j \in DOMAIN Resent : i = Place(j - 1) IN Resent[j]
                       ELSE buf[i]
  <2>1. buf' = [i \in 0 .. BUF - 1 |-> new(i)] BY DEF KeyboardResetsignal
  <2>2. ASSUME NEW i \in 0 .. BUF - 1 PROVE new(i) \in Byte \cup {NoByte}
    <3>1. CASE \E j \in DOMAIN Resent : i = Place(j - 1)
      <4>1. PICK j \in DOMAIN Resent : new(i) = Resent[j] BY <3>1
      <4> QED BY <4>1, ResentFacts
    <3>2. CASE ~ \E j \in DOMAIN Resent : i = Place(j - 1) BY <3>2
    <3> QED BY <3>1, <3>2
  <2> QED BY <2>1, <2>2
<1>3. ctr' \in Seq(Reply) /\ Len(ctr') =< CTR
  BY <1>1, EmptySeq, KeyboardAssumption
<1>4. awaited' \in Seq(Reply) /\ stale' \in BOOLEAN /\ armed' \in BOOLEAN BY <1>1, EmptySeq
<1> QED BY <1>1, <1>2, <1>3, <1>4, ZenonT(60) DEF host, callback, line

LEMMA CommandTypes ==
    ASSUME Types,
           \/ \E c \in COMMANDS : SendCommand(c)
           \/ \E p \in Parameter : SendParameter(p)
    PROVE  Types'
<1>0. Types OBVIOUS
<1>1. CASE \E c \in COMMANDS : SendCommand(c)
  <2>1. PICK c \in COMMANDS : SendCommand(c) BY <1>1
  <2>2. /\ mode' = c /\ reqparam' = (c \in {"repeat", "led"})
        /\ Answered(RepliesTo(c)) /\ Awaits(RepliesTo(c))
        /\ UNCHANGED <<host, ring, full, data, called, callback, line, keyrep, down, lost, stale>>
    BY <2>1 DEF SendCommand
  <2>3. RepliesTo(c) \in Seq(Reply) /\ Len(RepliesTo(c)) =< 3 BY ReplyFacts
  <2>4. ctr' \in Seq(Reply) /\ Len(ctr') =< CTR /\ armed' \in BOOLEAN
    BY <1>0, <2>2, <2>3, AnsweredFacts
  <2>5. mode' \in {"repeat", "led", "type", "unknown"} BY <2>2, KeyboardAssumption
  <2>6. reqparam' \in BOOLEAN /\ awaited' \in Seq(Reply) BY <1>0, <2>2, <2>3, AwaitsType
  <2> QED BY <1>0, <2>2, <2>4, <2>5, <2>6 DEF host, ring, callback, line, Types
<1>2. CASE \E p \in Parameter : SendParameter(p)
  <2>1. PICK p \in Parameter : SendParameter(p) BY <1>2
  <2>2. /\ reqparam' = FALSE /\ keyrep' = IF mode = "repeat" THEN p = "go" ELSE keyrep
        /\ Answered(RepliesToParameter(p)) /\ Awaits(RepliesToParameter(p))
        /\ UNCHANGED <<host, ring, full, data, called, callback, line, mode, down, lost, stale>>
    BY <2>1 DEF SendParameter
  <2>3. RepliesToParameter(p) \in Seq(Reply) /\ Len(RepliesToParameter(p)) =< 3
    BY ReplyFacts
  <2>4. ctr' \in Seq(Reply) /\ Len(ctr') =< CTR /\ armed' \in BOOLEAN
    BY <1>0, <2>2, <2>3, AnsweredFacts
  <2>5. keyrep' \in BOOLEAN
    <3>1. keyrep \in BOOLEAN BY <1>0 DEF Types
    <3>2. keyrep' = (p = "go") \/ keyrep' = keyrep BY <2>2
    <3> QED BY <3>1, <3>2
  <2>6. awaited' \in Seq(Reply) BY <1>0, <2>2, <2>3, AwaitsType
  <2> QED BY <1>0, <2>2, <2>4, <2>5, <2>6, ZenonT(60) DEF host, ring, callback, line, Types
<1> QED BY <1>1, <1>2

LEMMA HandlerTypes == ASSUME Types, Expire \/ Acknowledge \/ KeyboardI41 PROVE Types'
<1>0. Types OBVIOUS
<1> USE DEF Types
<1>1. CASE Expire
  <2>1. /\ armed' = FALSE /\ called' = TRUE
        /\ UNCHANGED <<host, ring, ctr, full, data, callback, line, command, guest>>
    BY <1>1 DEF Expire
  <2>2. UNCHANGED <<ref, todo, put, buf, bufpos, ctr, full, data, take, irq, servicing, keyrep,
                    reqparam, mode, down, awaited, lost, stale>>
    BY ONLY <2>1 DEF host, ring, callback, line, command, guest
  <2> QED BY ONLY <1>0, <2>1, <2>2, ZenonT(60) DEF Types
<1>2. CASE Acknowledge
  <2>1. /\ irq' = FALSE /\ servicing' = TRUE
        /\ UNCHANGED <<host, ring, ctr, full, data, event, callback, command, guest>>
    BY <1>2 DEF Acknowledge
  <2>2. UNCHANGED <<ref, todo, put, buf, bufpos, ctr, full, data, armed, called, take, keyrep,
                    reqparam, mode, down, awaited, lost, stale>>
    BY ONLY <2>1 DEF host, ring, event, callback, command, guest
  <2> QED BY ONLY <1>0, <2>1, <2>2, ZenonT(60) DEF Types
<1>3. CASE KeyboardI41
  <2>1. Noted(down, data) \subseteq KEY BY DEF Noted, IsReply, Byte
  <2>2. /\ servicing' = FALSE /\ full' = FALSE /\ irq' = FALSE
        /\ down' = Noted(down, data)
        /\ (awaited' = awaited \/ (awaited # << >> /\ awaited' = Tail(awaited)))
        /\ stale' = FALSE
        /\ UNCHANGED <<host, ring, ctr, data, event, callback, command, lost>>
    BY <1>3 DEF KeyboardI41, AfterRead
  <2>3. awaited' \in Seq(Reply)
    <3>1. awaited # << >> => Tail(awaited) \in Seq(Reply) BY TailFacts
    <3> QED BY <2>2, <3>1
  <2> QED BY <2>1, <2>2, <2>3, ZenonT(60) DEF host, ring, event, callback, command
<1> QED BY <1>1, <1>2, <1>3

LEMMA NextTypes == ASSUME Types, PutInv, [Next]_vars PROVE Types'
<1>1. CASE UNCHANGED vars
  BY <1>1 DEF Types, vars, host, ring, event, callback, line, command, guest
<1> QED
  BY <1>1, HostTypes, SendTypes, CallbackTypes, ResetTypes, CommandTypes, HandlerTypes
  DEF Next, Guest

LEMMA NextPut == ASSUME Types, PutInv, [Next]_vars PROVE PutInv'
<1>1. CASE Host BY <1>1 DEF Host, KeyDown, KeyUp, AllRelease, HostTurn, HostIdle, PutInv
<1>2. CASE Send
  BY <1>2 DEF Send, SendStore, SendRefused, SendLoad, SendCount, SendArm, PutInv
<1>3. ASSUME UNCHANGED <<todo, put>> PROVE PutInv' BY <1>3 DEF PutInv
<1> QED
  BY <1>1, <1>2, <1>3
  DEF Next, Expire, Callback, KeyboardCallback, TakeCount, TakeByte, Acknowledge, KeyboardI41,
      Guest, KeyboardResetsignal, SendCommand, SendParameter, vars, host

-----------------------------------------------------------------------------
(***************************************************************************)
(* The event, in either build                                              *)
(***************************************************************************)

\* The host's part, and the guest's commands, leave the callback and the
\* interrupt as they are.
LEMMA Untouched ==
    /\ Host \/ Send => UNCHANGED <<ctr, data, called, callback, line, awaited, stale>>
    /\ Host => UNCHANGED full
    /\ Guest /\ ~ KeyboardResetsignal =>
          UNCHANGED <<ring, host, full, data, called, callback, line, down, lost, stale>>
<1>1. Host => UNCHANGED <<ctr, full, data, called, callback, line, awaited, stale>>
  BY DEF Host, KeyDown, KeyUp, AllRelease, event, guest
<1>2. Send => UNCHANGED <<ctr, data, called, callback, line, awaited, stale>>
  BY DEF Send, SendStore, SendRefused, SendLoad, SendCount, SendArm, event, guest
<1>3. Guest /\ ~ KeyboardResetsignal =>
          UNCHANGED <<ring, host, full, data, called, callback, line, down, lost, stale>>
  BY DEF Guest, SendCommand, SendParameter
<1> QED BY <1>1, <1>2, <1>3

\* What the callback does, in the order of its tests
LEMMA CallbackCases ==
    ASSUME KeyboardCallback
    PROVE  /\ called /\ take = "idle" /\ UNCHANGED <<host, ring, command, guest>>
           /\ \/ ctr = << >> /\ ~ buffers > 0 /\ ~ called' /\ UNCHANGED <<armed, line, ctr, full, data, callback>>
              \/ full /\ RaiseAndArm /\ UNCHANGED <<ctr, full, data, callback>>
              \/ /\ ~ full /\ ctr # << >> /\ full' = TRUE /\ data' = Head(ctr) /\ ctr' = Tail(ctr)
                 /\ RaiseAndArm /\ UNCHANGED callback
              \/ /\ ~ full /\ ctr = << >> /\ buffers # 0 /\ full' = TRUE
                 /\ take' = "loaded" /\ taken' = buffers
                 /\ UNCHANGED <<ctr, data, line, event>>
<1>1. buffers = 0 => ~ buffers > 0 OBVIOUS
<1> QED BY <1>1 DEF KeyboardCallback, MayTake

LEMMA NextTake == ASSUME TakeInv, [Next]_vars PROVE TakeInv'
<1> USE DEF TakeInv
<1>0. ASSUME UNCHANGED <<called, callback>> PROVE TakeInv' BY <1>0 DEF callback
<1>1. CASE Host \/ Send BY <1>0, <1>1, Untouched
<1>2. CASE Expire BY <1>2 DEF Expire, callback
<1>3. CASE KeyboardCallback
  <2>1. called /\ take = "idle" BY <1>3, CallbackCases
  <2>2. UNCHANGED take \/ UNCHANGED event BY <1>3, CallbackCases DEF callback
  <2> QED BY <2>1, <2>2 DEF event
<1>4. CASE TakeCount BY <1>4 DEF TakeCount, event
<1>5. CASE TakeByte BY <1>5 DEF TakeByte
<1>6. CASE Acknowledge \/ KeyboardI41 BY <1>0, <1>6 DEF Acknowledge, KeyboardI41, event
<1>7. CASE Guest BY <1>0, <1>7, Untouched DEF KeyboardResetsignal
<1>8. CASE UNCHANGED vars BY <1>0, <1>8 DEF vars, event
<1> QED BY <1>1, <1>2, <1>3, <1>4, <1>5, <1>6, <1>7, <1>8 DEF Next, Callback

LEMMA NextServed == ASSUME Types, PutInv, TakeInv, ServedInv, [Next]_vars PROVE ServedInv'
<1> USE DEF ServedInv
<1>1. CASE Host BY <1>1 DEF Host, KeyDown, KeyUp, AllRelease, ring, event
<1>2. CASE SendStore \/ SendRefused
  BY <1>2 DEF SendStore, SendRefused, ring, event
<1>3. CASE SendLoad BY <1>3 DEF SendLoad, ring, event
<1>4. CASE SendCount BY <1>4 DEF SendCount
<1>5. CASE SendArm
  <2>1. armed' = (armed \/ ~ armed) BY <1>5 DEF SendArm, MustArm
  <2> QED BY <2>1, Zenon
<1>6. CASE Expire BY <1>6 DEF Expire
<1>7. CASE KeyboardCallback
  BY <1>7, CallbackCases DEF RaiseAndArm, ring, host, event
<1>8. CASE TakeCount
  <2>1. called /\ UNCHANGED event BY <1>8 DEF TakeCount, TakeInv
  <2> QED BY <2>1 DEF event
<1>9. CASE TakeByte BY <1>9 DEF TakeByte, RaiseAndArm
<1>10. CASE Acknowledge BY <1>10 DEF Acknowledge, ring, event, host
<1>11. CASE KeyboardI41 BY <1>11 DEF KeyboardI41, ring, event, host
<1>12. CASE KeyboardResetsignal
  <2>1. buffers' = Len(Resent) /\ armed' = (Resent # << >>) /\ ctr' = << >>
    BY <1>12 DEF KeyboardResetsignal
  <2>2. buffers' > 0 => armed' BY <2>1, ResentFacts
  <2> QED BY <2>1, <2>2
<1>13. CASE \E c \in COMMANDS : SendCommand(c)
  <2>1. PICK c \in COMMANDS : SendCommand(c) BY <1>13
  <2>2. Answered(RepliesTo(c)) BY <2>1 DEF SendCommand
  <2>3. RepliesTo(c) \in Seq(Reply) /\ Len(RepliesTo(c)) \in 1 .. 3 /\ RepliesTo(c) # << >>
    BY ReplyFacts
  <2>4. Len(RepliesTo(c)) =< 3 BY ReplyFacts
  <2>5. armed' BY <2>2, <2>3, <2>4, AnsweredFacts
  <2> QED BY <2>5
<1>14. CASE \E p \in Parameter : SendParameter(p)
  <2>1. PICK p \in Parameter : SendParameter(p) BY <1>14
  <2>2. /\ Answered(RepliesToParameter(p))
        /\ UNCHANGED <<ring, called, put>>
    BY <2>1 DEF SendParameter, host
  <2>3. RepliesToParameter(p) \in Seq(Reply) /\ Len(RepliesToParameter(p)) \in 0 .. 2
    BY ReplyFacts
  <2>4. Len(RepliesToParameter(p)) =< 3 BY ReplyFacts
  <2>5. armed' \/ UNCHANGED <<ctr, armed>> BY <2>2, <2>3, <2>4, AnsweredFacts
  <2> QED BY <2>2, <2>5 DEF ring
<1>15. CASE UNCHANGED vars BY <1>15 DEF vars, ring, event, host
<1> QED
  BY <1>1, <1>2, <1>3, <1>4, <1>5, <1>6, <1>7, <1>8, <1>9, <1>10, <1>11, <1>12, <1>13, <1>14, <1>15
  DEF Next, Send, Callback, Guest

LEMMA InitCommon == Init => CommonInv
<1> SUFFICES ASSUME Init PROVE CommonInv OBVIOUS
<1>1. buf \in [0 .. BUF - 1 -> Byte \cup {NoByte}] /\ bufpos \in 0 .. BUF - 1
  BY KeyboardAssumption DEF Init
<1>2. /\ todo \in Seq(Byte) /\ awaited \in Seq(Reply)
      /\ ctr \in Seq(Reply) /\ Len(ctr) = 0 /\ Len(ctr) =< CTR
  BY KeyboardAssumption, EmptySeq DEF Init
<1>3. Types BY <1>1, <1>2 DEF Init, Types
<1>4. PutInv /\ TakeInv /\ ServedInv BY DEF Init, PutInv, TakeInv, ServedInv
<1> QED BY <1>3, <1>4 DEF CommonInv

\* The invariant holds in every reachable state, with the host's part in a
\* thread of its own or between two frames.
THEOREM Invariance == Spec => []CommonInv
<1>1. Init => CommonInv BY InitCommon
<1>2. CommonInv /\ [Next]_vars => CommonInv'
  BY NextTypes, NextPut, NextTake, NextServed DEF CommonInv
<1> QED BY <1>1, <1>2, PTL DEF Spec

\* No byte or reply is left in its queue without the event that takes it out,
\* although two threads arm it.
THEOREM QueueAlwaysServed == Spec => []QueueIsServed
<1>1. CommonInv => QueueIsServed BY DEF CommonInv, ServedInv, QueueIsServed, HostIdle
<1> QED BY <1>1, Invariance, PTL

-----------------------------------------------------------------------------
(***************************************************************************)
(* The ring, when the host's part runs between two frames                  *)
(***************************************************************************)

\* The host's part and the callback do not overlap; each is one of the steps
\* of a byte that is put in or taken out.
RingInv ==
    /\ called => HostIdle
    /\ buffers \in 0 .. BUF /\ copy \in 0 .. BUF /\ taken \in 0 .. BUF
    /\ put \in {"stored", "loaded"} => buffers < BUF /\ buf[Place(buffers)] = Head(todo)
    /\ put = "loaded" => copy = buffers
    /\ put = "refused" => copy = IF full THEN 1 ELSE 0
    /\ take = "loaded" => taken = buffers /\ buffers > 0
    /\ take = "counted" => buffers < BUF

LEMMA ModSmall == ASSUME NEW n \in Nat \ {0}, NEW x \in 0 .. n - 1 PROVE x % n = x
  OBVIOUS

LEMMA ModOver == ASSUME NEW n \in Nat \ {0}, NEW x \in n .. n + n - 1 PROVE x % n = x - n
<1>1. x - n \in 0 .. n - 1 OBVIOUS
<1> QED BY <1>1

LEMMA PlaceValue ==
    ASSUME Types, NEW i \in 0 .. BUF
    PROVE  /\ Place(i) = IF bufpos + i < BUF THEN bufpos + i ELSE bufpos + i - BUF
           /\ Place(i) \in 0 .. BUF - 1
<1>1. BUF \in Nat \ {0} /\ bufpos \in 0 .. BUF - 1 BY KeyboardAssumption DEF Types
<1>2. CASE bufpos + i < BUF
  <2>1. bufpos + i \in 0 .. BUF - 1 BY <1>1, <1>2
  <2>2. (bufpos + i) % BUF = bufpos + i BY <1>1, <2>1, ModSmall
  <2> QED BY <1>2, <2>1, <2>2 DEF Place
<1>3. CASE ~ bufpos + i < BUF
  <2>1. bufpos + i \in BUF .. BUF + BUF - 1 BY <1>1, <1>3
  <2>2. (bufpos + i) % BUF = bufpos + i - BUF BY <1>1, <2>1, ModOver
  <2> QED BY <1>1, <1>3, <2>1, <2>2 DEF Place
<1> QED BY <1>2, <1>3

\* Different bytes of the ring have different places.
LEMMA PlaceInjective ==
    ASSUME Types, NEW i \in 0 .. BUF, NEW j \in 0 .. BUF, Place(i) = Place(j), i < j
    PROVE  i = 0 /\ j = BUF
<1>1. BUF \in Nat \ {0} /\ bufpos \in 0 .. BUF - 1 BY KeyboardAssumption DEF Types
<1> QED BY <1>1, PlaceValue

\* After a byte was taken, all places move by one.
LEMMA PlaceAfterTake ==
    ASSUME Types, Types', bufpos' = Place(1), NEW i \in 0 .. BUF - 1
    PROVE  Place(i)' = Place(i + 1)
<1>1. BUF \in Nat \ {0} /\ bufpos \in 0 .. BUF - 1 /\ bufpos' \in 0 .. BUF - 1
  BY KeyboardAssumption DEF Types
<1>2. i \in 0 .. BUF /\ i + 1 \in 0 .. BUF /\ 1 \in 0 .. BUF BY <1>1
<1>3. Place(i + 1) = IF bufpos + (i + 1) < BUF THEN bufpos + (i + 1) ELSE bufpos + (i + 1) - BUF
  BY <1>2, PlaceValue
<1>4. bufpos' = IF bufpos + 1 < BUF THEN bufpos + 1 ELSE bufpos + 1 - BUF
  BY <1>2, PlaceValue
<1>5. Place(i)' = (bufpos' + i) % BUF BY DEF Place
<1>6. CASE bufpos' + i < BUF
  <2>1. (bufpos' + i) % BUF = bufpos' + i BY <1>1, <1>6, ModSmall
  <2> QED BY <1>1, <1>3, <1>4, <1>5, <1>6, <2>1
<1>7. CASE ~ bufpos' + i < BUF
  <2>1. bufpos' + i \in BUF .. BUF + BUF - 1 BY <1>1, <1>7
  <2>2. (bufpos' + i) % BUF = bufpos' + i - BUF BY <1>1, <2>1, ModOver
  <2> QED BY <1>1, <1>3, <1>4, <1>5, <1>7, <2>2
<1> QED BY <1>6, <1>7

LEMMA SamePlace ==
    ASSUME bufpos' = bufpos, NEW i
    PROVE  Place(i)' = Place(i)
  BY DEF Place

\* A reset puts the keys that are held where the ring begins.
LEMMA ResetRing ==
    ASSUME Types, KeyboardResetsignal, NEW i \in 1 .. Len(Resent)
    PROVE  buf'[Place(i - 1)] = Resent[i]
<1>1. /\ Len(Resent) \in Nat /\ Len(Resent) =< BUF /\ DOMAIN Resent = 1 .. Len(Resent)
  BY ResentFacts
<1>2. BUF \in Nat \ {0} BY KeyboardAssumption
<1>3. ASSUME NEW j \in 1 .. Len(Resent), Place(j - 1) = Place(i - 1) PROVE j = i
  <2>1. j - 1 \in 0 .. BUF /\ i - 1 \in 0 .. BUF /\ j - 1 < BUF /\ i - 1 < BUF BY <1>1, <1>2
  <2>2. ~ j - 1 < i - 1 BY <1>2, <1>3, <2>1, PlaceInjective
  <2>3. ~ i - 1 < j - 1 BY <1>2, <1>3, <2>1, PlaceInjective
  <2> QED BY <1>1, <2>1, <2>2, <2>3
<1> DEFINE p == Place(i - 1)
<1>4. p \in 0 .. BUF - 1
  <2>1. i - 1 \in 0 .. BUF BY <1>1, <1>2
  <2> QED BY <2>1, PlaceValue
<1>5. buf'[p] = IF \E j \in DOMAIN Resent : p = Place(j - 1)
                THEN LET j == CHOOSE j \in DOMAIN Resent : p = Place(j - 1) IN Resent[j]
                ELSE buf[p]
  BY <1>4 DEF KeyboardResetsignal
<1>6. \E j \in DOMAIN Resent : p = Place(j - 1) BY <1>1
<1> DEFINE k == CHOOSE j \in DOMAIN Resent : p = Place(j - 1)
<1>7. k \in DOMAIN Resent /\ p = Place(k - 1) BY <1>6
<1>8. k = i BY <1>1, <1>3, <1>7
<1> QED BY <1>5, <1>6, <1>8

LEMMA RingSame ==
    ASSUME RingInv, UNCHANGED <<host, ring, called, callback>>, full' = full \/ HostIdle
    PROVE  RingInv'
<1>1. UNCHANGED <<todo, put, copy, buf, bufpos, buffers, called, take, taken>>
  BY DEF host, ring, callback
<1>2. Place(buffers)' = Place(buffers) BY <1>1 DEF Place
<1>3. HostIdle' = HostIdle BY <1>1 DEF HostIdle
<1>4. HostIdle => put = "idle" BY DEF HostIdle
<1> QED BY <1>1, <1>2, <1>3, <1>4 DEF RingInv

\* The emulation's part runs only when the host's is done.
LEMMA Alone ==
    ASSUME ~ THREADED, RingInv, TakeInv
    PROVE  /\ EmulatorTurn <=> HostIdle
           /\ HostTurn => HostIdle /\ ~ called
           /\ todo # << >> \/ put # "idle" => ~ called /\ take = "idle"
  BY DEF EmulatorTurn, HostTurn, HostIdle, RingInv, TakeInv

LEMMA NextRing ==
    ASSUME ~ THREADED, CommonInv, RingInv, [Next]_vars
    PROVE  RingInv'
<1>0. Types /\ PutInv /\ TakeInv /\ BUF \in Nat \ {0}
  BY KeyboardAssumption DEF CommonInv
<1>1. CASE Host
  <2>1. HostIdle /\ ~ called BY <1>0, <1>1, Alone DEF Host, KeyDown, KeyUp, AllRelease
  <2>2. UNCHANGED <<put, copy, ring, event, callback>>
    BY <1>1 DEF Host, KeyDown, KeyUp, AllRelease
  <2>3. ~ called' /\ put' = "idle" /\ take' = "idle"
    BY <1>0, <2>1, <2>2 DEF event, callback, HostIdle, TakeInv
  <2> QED BY <2>2, <2>3 DEF RingInv, ring, callback
<1>2. CASE Send
  <2>0. todo # << >> \/ put # "idle"
    BY <1>2 DEF Send, SendStore, SendRefused, SendLoad, SendCount, SendArm
  <2>1. ~ called /\ take = "idle" BY <1>0, <2>0, Alone
  <2>2. called' = called /\ UNCHANGED callback BY <1>2, Untouched
  <2>3. ~ called' /\ take' = "idle" BY <2>1, <2>2 DEF callback
  <2>4. CASE SendStore
    <3>1. CASE HasRoom
      <4>1. /\ buf' = [buf EXCEPT ![Place(buffers)] = Head(todo)]
            /\ put' = "stored" /\ UNCHANGED <<todo, copy, bufpos, buffers>>
        BY <2>4, <3>1 DEF SendStore
      <4>2. Place(buffers) \in 0 .. BUF - 1 BY <1>0, PlaceValue DEF RingInv
      <4>3. buf'[Place(buffers)] = Head(todo) BY <1>0, <4>1, <4>2 DEF Types
      <4>4. Place(buffers)' = Place(buffers) BY <4>1 DEF Place
      <4>5. buffers' < BUF BY <3>1, <4>1 DEF HasRoom
      <4>6. (buf[Place(buffers)])' = Head(todo)' BY <4>1, <4>3, <4>4
      <4> QED BY <2>2, <2>3, <4>1, <4>5, <4>6 DEF RingInv, callback
    <3>2. CASE ~ HasRoom
      <4>1. /\ put' = "refused" /\ copy' = IF full THEN 1 ELSE 0
            /\ UNCHANGED <<buffers, full>>
        BY <2>4, <3>2 DEF SendStore
      <4>2. copy' \in 0 .. BUF BY <1>0, <4>1
      <4> QED BY <2>2, <2>3, <4>1, <4>2 DEF RingInv, callback
    <3> QED BY <3>1, <3>2
  <2>5. CASE SendLoad
    <3>1. /\ put = "stored" /\ put' = "loaded" /\ copy' = buffers
          /\ UNCHANGED <<todo, buf, bufpos, buffers>>
      BY <2>5 DEF SendLoad, ring
    <3>2. Place(buffers)' = Place(buffers) BY <3>1 DEF Place
    <3>3. (buf[Place(buffers)])' = Head(todo)' BY <3>1, <3>2 DEF RingInv
    <3> QED BY <2>2, <2>3, <3>1, <3>3 DEF RingInv, callback
  <2>6. CASE SendCount
    <3>1. put = "loaded" /\ put' = "counted" /\ buffers' = copy + 1 /\ copy' = 0
      BY <2>6 DEF SendCount
    <3>2. buffers' \in 0 .. BUF BY <1>0, <3>1 DEF RingInv
    <3>3. copy' \in 0 .. BUF BY <1>0, <3>1
    <3> QED BY <2>2, <2>3, <3>1, <3>2, <3>3 DEF RingInv, callback
  <2>7. CASE SendArm
    <3>1. put' = "idle" /\ UNCHANGED <<copy, buffers>> BY <2>7 DEF SendArm, ring
    <3> QED BY <2>2, <2>3, <3>1 DEF RingInv, callback
  <2>8. CASE SendRefused
    <3>1. put' = "idle" /\ copy' = 0 /\ UNCHANGED buffers BY <2>8 DEF SendRefused, ring
    <3>2. copy' \in 0 .. BUF BY <1>0, <3>1
    <3> QED BY <2>2, <2>3, <3>1, <3>2 DEF RingInv, callback
  <2> QED BY <1>2, <2>4, <2>5, <2>6, <2>7, <2>8 DEF Send
<1>3. CASE Expire
  <2>1. HostIdle /\ ~ called /\ UNCHANGED <<host, ring, callback>>
    BY <1>0, <1>3, Alone DEF Expire
  <2>2. HostIdle' BY <2>1 DEF HostIdle, host
  <2>3. put' = "idle" BY <2>2 DEF HostIdle
  <2> QED BY <2>1, <2>2, <2>3 DEF RingInv, host, ring, callback
<1>4. CASE KeyboardCallback
  <2>1. HostIdle /\ take = "idle" /\ UNCHANGED <<host, ring>>
    BY <1>0, <1>4, Alone DEF KeyboardCallback
  <2>2. HostIdle' BY <2>1 DEF HostIdle, host
  <2>3. put' = "idle" BY <2>2 DEF HostIdle
  <2>4. \/ UNCHANGED callback
        \/ take' = "loaded" /\ taken' = buffers /\ buffers # 0
    BY <1>4, CallbackCases
  <2>5. buffers # 0 => buffers > 0 BY <1>0 DEF RingInv
  <2>6. UNCHANGED <<copy, buffers>> BY <2>1 DEF host, ring
  <2> QED BY <2>1, <2>2, <2>3, <2>4, <2>5, <2>6 DEF RingInv, callback
<1>5. CASE TakeCount
  <2>1. /\ take = "loaded" /\ take' = "counted" /\ taken' = 0 /\ buffers' = taken - 1
        /\ UNCHANGED <<host, event>>
    BY <1>5 DEF TakeCount
  <2>2. called /\ HostIdle BY <1>0, <2>1 DEF TakeInv, RingInv
  <2>3. HostIdle' /\ put' = "idle" BY <2>1, <2>2 DEF HostIdle, host
  <2>4. buffers' \in 0 .. BUF /\ buffers' < BUF /\ taken' \in 0 .. BUF
    BY <1>0, <2>1 DEF RingInv
  <2>5. copy' = copy BY <2>1 DEF host
  <2> QED BY <2>1, <2>3, <2>4, <2>5 DEF RingInv
<1>6. CASE TakeByte
  <2>1. take = "counted" /\ take' = "idle" /\ UNCHANGED <<host, buffers, taken>>
    BY <1>6 DEF TakeByte
  <2>2. called /\ HostIdle BY <1>0, <2>1 DEF TakeInv, RingInv
  <2>3. HostIdle' /\ put' = "idle" BY <2>1, <2>2 DEF HostIdle, host
  <2>4. copy' = copy BY <2>1 DEF host
  <2> QED BY <2>1, <2>3, <2>4 DEF RingInv
<1>7. CASE Acknowledge BY <1>7, RingSame DEF Acknowledge, event
<1>8. CASE KeyboardI41
  <2>1. HostIdle BY <1>0, <1>8, Alone DEF KeyboardI41, GuestTurn
  <2> QED BY <1>8, <2>1, RingSame DEF KeyboardI41, event
<1>9. CASE KeyboardResetsignal
  <2>1. HostIdle /\ ~ called BY <1>0, <1>9, Alone DEF KeyboardResetsignal, GuestTurn
  <2>2. UNCHANGED <<host, called, callback>> /\ buffers' = Len(Resent)
    BY <1>9 DEF KeyboardResetsignal
  <2>3. put' = "idle" /\ ~ called' /\ take' = "idle" /\ UNCHANGED <<copy, taken>>
    BY <1>0, <2>1, <2>2 DEF HostIdle, TakeInv, host, callback
  <2>4. buffers' \in 0 .. BUF BY <1>0, <2>2, ResentFacts
  <2> QED BY <2>3, <2>4 DEF RingInv
<1>10. CASE \/ \E c \in COMMANDS : SendCommand(c)
            \/ \E p \in Parameter : SendParameter(p)
  BY <1>10, RingSame DEF SendCommand, SendParameter
<1>11. CASE UNCHANGED vars BY <1>11, RingSame DEF vars, event
<1> QED
  BY <1>1, <1>2, <1>3, <1>4, <1>5, <1>6, <1>7, <1>8, <1>9, <1>10, <1>11
  DEF Next, Callback, Guest

LEMMA InitRing == Init => RingInv
  BY KeyboardAssumption DEF Init, RingInv, HostIdle

\* Without a thread of its own for the host's part the ring never holds more
\* bytes than it has places.
THEOREM TypeCorrect == ASSUME ~ THREADED PROVE Spec => []TypeOK
<1>1. Init => RingInv BY InitRing
<1>2. CommonInv /\ RingInv /\ [Next]_vars => RingInv' BY NextRing
<1>3. CommonInv /\ RingInv => TypeOK BY DEF CommonInv, Types, RingInv, TypeOK
<1> QED BY <1>1, <1>2, <1>3, Invariance, PTL DEF Spec

-----------------------------------------------------------------------------
(***************************************************************************)
(* The interrupt and the replies, when the host's part runs between two    *)
(* frames.  With two threads keyboard_send may write the status bit back.  *)
(***************************************************************************)

\* The status bit is set while the callback takes a byte.  A byte that a reset
\* dropped, and that will be read again, is of a key the guest may be wrong about.
ReadInv ==
    /\ take # "idle" => full
    /\ ByteIsAnnounced
    /\ RepliesAreWhole
    /\ stale /\ ~ full /\ data \in Byte => data.key \in lost

\* A refused byte leaves the bit as it is.
LEMMA SendKeepsFull ==
    ASSUME ~ THREADED, Types, RingInv, Send
    PROVE  full' = full
<1>1. CASE SendRefused
  <2>1. full' = (copy = 1) /\ copy = IF full THEN 1 ELSE 0 BY <1>1 DEF SendRefused, RingInv
  <2>2. full \in BOOLEAN BY DEF Types
  <2>3. CASE full = TRUE BY <2>1, <2>3
  <2>4. CASE full = FALSE
    <3>1. copy # 1 BY <2>1, <2>4
    <3>2. full' = FALSE BY <2>1, <3>1, Zenon
    <3> QED BY <2>4, <3>2
  <2> QED BY <2>2, <2>3, <2>4
<1>2. CASE SendStore \/ SendLoad \/ SendCount \/ SendArm
  BY <1>2 DEF SendStore, SendLoad, SendCount, SendArm
<1> QED BY <1>1, <1>2 DEF Send

\* The host's part only adds to the keys the guest may be wrong about while a
\* dropped byte may be read again.
LEMMA LostGrows == ASSUME Host \/ Send, stale PROVE lost \subseteq lost'
  BY DEF Host, KeyDown, KeyUp, AllRelease, Send, SendStore, SendRefused, SendLoad, SendCount, SendArm, guest

LEMMA NextAnnounced ==
    ASSUME ~ THREADED, Types, RingInv, TakeInv, take # "idle" => full, ByteIsAnnounced, [Next]_vars
    PROVE  ByteIsAnnounced' /\ (take' # "idle" => full')
<1> USE DEF ByteIsAnnounced
<1>0. ASSUME UNCHANGED <<full, callback, line, stale>>
      PROVE  ByteIsAnnounced' /\ (take' # "idle" => full')
  BY <1>0 DEF callback, line
<1>1. CASE Host \/ Send BY <1>0, <1>1, Untouched, SendKeepsFull
<1>2. CASE Expire \/ UNCHANGED vars BY <1>0, <1>2 DEF Expire, vars, guest
<1>3. CASE KeyboardCallback
  <2>1. take = "idle" /\ UNCHANGED stale BY <1>3, CallbackCases DEF guest
  <2>2. CASE UNCHANGED <<line, full, callback>> BY <1>0, <2>1, <2>2
  <2>3. CASE full /\ RaiseAndArm /\ UNCHANGED <<full, callback>>
    BY <2>1, <2>3 DEF RaiseAndArm, callback
  <2>4. CASE full' = TRUE /\ RaiseAndArm /\ UNCHANGED callback
    BY <2>1, <2>4 DEF RaiseAndArm, callback
  <2>5. CASE full' = TRUE /\ take' = "loaded" BY <2>5
  <2> QED BY <1>3, <2>2, <2>3, <2>4, <2>5, CallbackCases
<1>4. CASE TakeCount BY <1>4 DEF TakeCount, line, guest
<1>5. CASE TakeByte BY <1>5 DEF TakeByte, RaiseAndArm, guest
<1>6. CASE Acknowledge BY <1>6 DEF Acknowledge, callback, guest
<1>7. CASE KeyboardI41
  <2>1. ~ called /\ full' = FALSE /\ irq' = FALSE /\ servicing' = FALSE /\ UNCHANGED callback
    BY <1>7 DEF KeyboardI41, GuestTurn, AfterRead
  <2> QED BY <2>1 DEF TakeInv, callback
<1>8. CASE KeyboardResetsignal
  <2>1. /\ ~ called /\ full' = FALSE /\ stale' = (irq \/ servicing) /\ UNCHANGED <<callback, line>>
    BY <1>8 DEF KeyboardResetsignal, GuestTurn
  <2> QED BY <2>1 DEF TakeInv, callback, line
<1>9. CASE Guest /\ ~ KeyboardResetsignal BY <1>0, <1>9, Untouched
<1> QED BY <1>1, <1>2, <1>3, <1>4, <1>5, <1>6, <1>7, <1>8, <1>9 DEF Next, Callback

LEMMA NextStale ==
    ASSUME ~ THREADED, Types, RingInv, ReadInv, [Next]_vars
    PROVE  (stale /\ ~ full /\ data \in Byte => data.key \in lost)'
<1> DEFINE P == stale /\ ~ full /\ data \in Byte => data.key \in lost
<1> SUFFICES P' OBVIOUS
<1>0. ASSUME UNCHANGED <<full, data, stale>>, stale => lost \subseteq lost' PROVE P'
  BY <1>0 DEF ReadInv, Byte
<1>1. CASE Host \/ Send BY <1>0, <1>1, Untouched, SendKeepsFull, LostGrows
<1>2. CASE Expire \/ Acknowledge \/ TakeCount \/ UNCHANGED vars
  BY <1>0, <1>2 DEF Expire, Acknowledge, TakeCount, vars, guest
<1>3. CASE KeyboardCallback
  <2>1. UNCHANGED <<stale, lost>> /\ (full' = TRUE \/ UNCHANGED <<full, data>>)
    BY <1>3, CallbackCases DEF guest
  <2>2. CASE UNCHANGED <<full, data>> BY <1>0, <2>1, <2>2
  <2>3. CASE full' = TRUE BY <2>3
  <2> QED BY <2>1, <2>2, <2>3
<1>4. CASE TakeByte BY <1>4 DEF TakeByte, ReadInv
<1>5. CASE KeyboardI41 BY <1>5 DEF KeyboardI41
<1>6. CASE KeyboardResetsignal
  <2>1. /\ lost' = IF stale' THEN {k \in KEY : data \in Byte /\ k = data.key} ELSE {}
        /\ data' = data
    BY <1>6 DEF KeyboardResetsignal
  <2>2. data \in Byte => data.key \in KEY BY DEF Byte
  <2> QED BY <2>1, <2>2 DEF Byte
<1>7. CASE Guest /\ ~ KeyboardResetsignal BY <1>0, <1>7, Untouched
<1> QED BY <1>1, <1>2, <1>3, <1>4, <1>5, <1>6, <1>7 DEF Next, Callback

LEMMA SplitFirst ==
    ASSUME NEW s \in Seq(Reply), s # << >>
    PROVE  <<Head(s)>> \o Tail(s) = s /\ Head(s) \in Reply
  OBVIOUS

LEMMA JoinFirst ==
    ASSUME NEW s \in Seq(Reply), NEW b
    PROVE  Head(<<b>> \o s) = b /\ Tail(<<b>> \o s) = s /\ <<b>> \o s # << >>
  OBVIOUS

LEMMA JoinNone == ASSUME NEW s \in Seq(Reply) PROVE << >> \o s = s
  OBVIOUS

\* The reply in the register, when the callback is not at work
Here == IF take = "idle" THEN Unread ELSE << >>

LEMMA NextWhole ==
    ASSUME ~ THREADED, Types, Types', TakeInv, RingInv, RepliesAreWhole, [Next]_vars
    PROVE  RepliesAreWhole'
<1>0. /\ awaited = Here \o ctr /\ ctr \in Seq(Reply) /\ ctr' \in Seq(Reply)
      /\ RepliesAreWhole' <=> awaited' = Here' \o ctr'
  BY DEF RepliesAreWhole, Types, Here
<1>1. ASSUME UNCHANGED <<full, take, data, ctr, awaited>> PROVE RepliesAreWhole'
  <2>1. Here' = Here BY <1>1 DEF Here, Unread, IsReply, Reply
  <2> QED BY <1>0, <1>1, <2>1
<1>2. CASE Host \/ Send BY <1>1, <1>2, Untouched, SendKeepsFull DEF callback
<1>3. CASE Expire \/ Acknowledge \/ UNCHANGED vars
  BY <1>1, <1>3 DEF Expire, Acknowledge, callback, guest, vars
<1>4. CASE KeyboardCallback
  <2>1. UNCHANGED awaited /\ take = "idle" BY <1>4, CallbackCases DEF guest
  <2>2. CASE UNCHANGED <<ctr, full, data, callback>> BY <1>1, <2>1, <2>2 DEF callback
  <2>3. CASE /\ ~ full /\ ctr # << >> /\ full' = TRUE /\ data' = Head(ctr) /\ ctr' = Tail(ctr)
             /\ UNCHANGED callback
    <3>1. Head(ctr) \in Reply /\ <<Head(ctr)>> \o Tail(ctr) = ctr BY <1>0, <2>3, SplitFirst
    <3>2. Here = << >> BY <2>3 DEF Here, Unread
    <3>3. Here' = <<data'>> BY <2>1, <2>3, <3>1 DEF Here, Unread, callback, IsReply, Reply
    <3>4. << >> \o ctr = ctr BY <1>0, JoinNone
    <3> QED BY <1>0, <2>1, <2>3, <3>1, <3>2, <3>3, <3>4
  <2>4. CASE ~ full /\ take' = "loaded" /\ UNCHANGED ctr
    <3>1. Here = << >> /\ Here' = << >> BY <2>4 DEF Here, Unread
    <3> QED BY <1>0, <2>1, <2>4, <3>1
  <2> QED BY <1>4, <2>2, <2>3, <2>4, CallbackCases
<1>5. CASE TakeCount
  <2>1. Here = << >> /\ Here' = << >> /\ UNCHANGED <<ctr, awaited>>
    BY <1>5 DEF TakeCount, guest, Here
  <2> QED BY <1>0, <2>1
<1>6. CASE TakeByte
  <2>1. take = "counted" /\ data' = buf[bufpos] /\ UNCHANGED <<ctr, awaited>>
    BY <1>6 DEF TakeByte, guest
  <2>2. buf[bufpos] \in Byte \cup {NoByte} BY DEF Types
  <2>3. data' \notin Reply BY <2>1, <2>2, ByteFacts
  <2>4. Here = << >> BY <2>1 DEF Here
  <2>5. Here' = << >> BY <2>3 DEF Here, Unread, IsReply, Reply
  <2> QED BY <1>0, <2>1, <2>4, <2>5
<1>7. CASE KeyboardI41
  <2>1. /\ full' = FALSE /\ UNCHANGED <<ctr, take>> /\ ~ called
        /\ awaited' = IF full /\ awaited # << >> /\ data = Head(awaited) THEN Tail(awaited)
                      ELSE awaited
    BY <1>7 DEF KeyboardI41, AfterRead, GuestTurn, callback
  <2>2. take = "idle" /\ Here' = << >> BY <2>1 DEF TakeInv, Here, Unread
  <2>3. << >> \o ctr = ctr BY <1>0, JoinNone
  <2>4. CASE full /\ data \in Reply
    <3>1. Here = <<data>> BY <2>2, <2>4 DEF Here, Unread, IsReply
    <3>2. /\ Head(<<data>> \o ctr) = data /\ Tail(<<data>> \o ctr) = ctr
          /\ <<data>> \o ctr # << >>
      BY <1>0, JoinFirst, SMTT(30)
    <3>3. awaited' = ctr BY <1>0, <2>1, <2>4, <3>1, <3>2
    <3> QED BY <1>0, <2>1, <2>2, <2>3, <3>3
  <2>5. CASE ~ (full /\ data \in Reply)
    <3>1. Here = << >> BY <2>2, <2>5 DEF Here, Unread, IsReply
    <3>2. awaited = ctr BY <1>0, <2>3, <3>1
    <3>3. awaited # << >> => Head(awaited) \in Reply BY <1>0, <3>2, SplitFirst
    <3>4. awaited' = awaited BY <2>1, <2>5, <3>3
    <3> QED BY <1>0, <2>1, <2>2, <2>3, <3>2, <3>4
  <2> QED BY <2>4, <2>5
<1>8. CASE KeyboardResetsignal
  <2>1. full' = FALSE /\ ctr' = << >> /\ awaited' = << >> BY <1>8 DEF KeyboardResetsignal
  <2>2. Here' = << >> BY <2>1 DEF Here, Unread
  <2>3. << >> \o << >> = << >> OBVIOUS
  <2> QED BY <1>0, <2>1, <2>2, <2>3
<1>9. ASSUME NEW replies \in Seq(Reply), Len(replies) =< 3, Answered(replies), Awaits(replies),
             ~ called, UNCHANGED <<full, data, callback>>
      PROVE  RepliesAreWhole'
  <2>1. take = "idle" /\ take' = take BY <1>9 DEF TakeInv, callback
  <2>2. Here = Unread /\ Here' = Unread BY <1>9, <2>1 DEF Here, Unread, IsReply, Reply
  <2>3. CASE replies = << >>
    <3>1. UNCHANGED <<ctr, awaited>> BY <1>9, <2>3 DEF Answered, Awaits
    <3> QED BY <1>0, <2>2, <3>1
  <2>4. CASE replies # << >>
    <3>1. ctr' = replies BY <1>9, <2>4, AnsweredFacts
    <3>2. awaited' = Unread \o replies BY <1>9, <2>4 DEF Awaits
    <3> QED BY <1>0, <2>2, <3>1, <3>2
  <2> QED BY <2>3, <2>4
<1>10. CASE \E c \in COMMANDS : SendCommand(c)
  <2>1. PICK c \in COMMANDS : SendCommand(c) BY <1>10
  <2>2. /\ Answered(RepliesTo(c)) /\ Awaits(RepliesTo(c)) /\ ~ called
        /\ UNCHANGED <<full, data, callback>>
    BY <2>1 DEF SendCommand, GuestTurn
  <2>3. RepliesTo(c) \in Seq(Reply) /\ Len(RepliesTo(c)) =< 3 BY ReplyFacts
  <2> QED BY <1>9, <2>2, <2>3
<1>11. CASE \E p \in Parameter : SendParameter(p)
  <2>1. PICK p \in Parameter : SendParameter(p) BY <1>11
  <2>2. /\ Answered(RepliesToParameter(p)) /\ Awaits(RepliesToParameter(p)) /\ ~ called
        /\ UNCHANGED <<full, data, callback>>
    BY <2>1 DEF SendParameter, GuestTurn
  <2>3. RepliesToParameter(p) \in Seq(Reply) /\ Len(RepliesToParameter(p)) =< 3 BY ReplyFacts
  <2> QED BY <1>9, <2>2, <2>3
<1> QED
  BY <1>2, <1>3, <1>4, <1>5, <1>6, <1>7, <1>8, <1>10, <1>11
  DEF Next, Callback, Guest

LEMMA NextRead ==
    ASSUME ~ THREADED, CommonInv, CommonInv', RingInv, ReadInv, [Next]_vars
    PROVE  ReadInv'
<1>1. Types /\ Types' /\ TakeInv BY DEF CommonInv
<1>2. ByteIsAnnounced /\ RepliesAreWhole /\ (take # "idle" => full) BY DEF ReadInv
<1>3. ByteIsAnnounced' /\ (take' # "idle" => full') BY <1>1, <1>2, NextAnnounced
<1>4. RepliesAreWhole' BY <1>1, <1>2, NextWhole
<1>5. (stale /\ ~ full /\ data \in Byte => data.key \in lost)' BY <1>1, NextStale
<1> QED BY <1>3, <1>4, <1>5 DEF ReadInv

LEMMA InitRead == Init => ReadInv
<1> SUFFICES ASSUME Init PROVE ReadInv OBVIOUS
<1>1. << >> \o << >> = << >> OBVIOUS
<1>2. RepliesAreWhole BY <1>1 DEF Init, RepliesAreWhole, Unread
<1> QED BY <1>2 DEF Init, ReadInv, ByteIsAnnounced

LEMMA ReadInvariance == ASSUME ~ THREADED PROVE Spec => [](CommonInv /\ RingInv /\ ReadInv)
<1>1. Init => RingInv BY InitRing
<1>2. Init => ReadInv BY InitRead
<1>3. CommonInv /\ RingInv /\ [Next]_vars => RingInv' BY NextRing
<1>4. CommonInv /\ CommonInv' /\ RingInv /\ ReadInv /\ [Next]_vars => ReadInv' BY NextRead
<1> QED BY <1>1, <1>2, <1>3, <1>4, Invariance, PTL DEF Spec

\* A byte that was not read keeps its interrupt requested or served, and no
\* interrupt comes without one but after a reset (keyboard_callback,
\* keyboard_i41, keyboard_resetsignal).
THEOREM BytesAreAnnounced == ASSUME ~ THREADED PROVE Spec => []ByteIsAnnounced
<1>1. ReadInv => ByteIsAnnounced BY DEF ReadInv
<1> QED BY <1>1, ReadInvariance, PTL

\* The guest gets the replies it waits for, each once and in their order
\* (keyboard_ctrl, keystat_ctrlsend, keyboard_callback).
THEOREM RepliesAlwaysWhole == ASSUME ~ THREADED PROVE Spec => []RepliesAreWhole
<1>1. ReadInv => RepliesAreWhole BY DEF ReadInv
<1> QED BY <1>1, ReadInvariance, PTL

-----------------------------------------------------------------------------
(***************************************************************************)
(* The interface implements KeyQueue                                       *)
(***************************************************************************)

\* How many bytes the ring holds, one that is being taken included
Count == buffers + IF take = "counted" THEN 1 ELSE 0

LEMMA PendingFacts ==
    ASSUME Types, RingInv
    PROVE  /\ Count \in 0 .. BUF /\ Len(Pending) = Count /\ DOMAIN Pending = 1 .. Count
           /\ Pending \in Seq(Byte \cup {NoByte})
           /\ \A i \in 1 .. Count : Pending[i] = buf[Place(i - 1)]
<1>1. BUF \in Nat \ {0} BY KeyboardAssumption
<1>2. Count \in 0 .. BUF BY <1>1 DEF RingInv, Count
<1>3. Pending = [i \in 1 .. Count |-> buf[Place(i - 1)]] BY DEF Pending, Count
<1>4. ASSUME NEW i \in 1 .. Count PROVE buf[Place(i - 1)] \in Byte \cup {NoByte}
  <2>1. i - 1 \in 0 .. BUF BY <1>1, <1>2
  <2>2. Place(i - 1) \in 0 .. BUF - 1 BY <2>1, PlaceValue
  <2> QED BY <2>2 DEF Types
<1> HIDE DEF Count
<1>5. Pending \in [1 .. Count -> Byte \cup {NoByte}] BY <1>3, <1>4
<1>6. Pending \in Seq(Byte \cup {NoByte}) /\ Len(Pending) = Count BY <1>2, <1>5
<1> QED BY <1>2, <1>3, <1>6

LEMMA OneMore ==
    ASSUME NEW n \in 0 .. BUF
    PROVE  n \in Nat /\ n + 0 \in 0 .. BUF /\ (n < BUF => n + 1 \in 0 .. BUF)
  BY KeyboardAssumption

LEMMA PendingNext ==
    ASSUME Types', RingInv'
    PROVE  /\ Count' \in 0 .. BUF /\ Len(Pending') = Count' /\ DOMAIN Pending' = 1 .. Count'
           /\ Pending' \in Seq(Byte \cup {NoByte})
           /\ \A i \in 1 .. Count' : Pending'[i] = buf'[Place(i - 1)']
<1>1. BUF \in Nat \ {0} BY KeyboardAssumption
<1>2. Count' \in 0 .. BUF
  <2>1. PICK n \in 0 .. BUF : n = buffers' /\ (take' = "counted" => n < BUF) BY DEF RingInv
  <2>2. CASE take' = "counted"
    <3>1. Count' = n + 1 BY <2>1, <2>2 DEF Count
    <3>2. n \in 0 .. BUF /\ n < BUF BY ONLY <2>1, <2>2
    <3>3. n + 1 \in 0 .. BUF BY ONLY <3>2, OneMore
    <3> QED BY <3>1, <3>3
  <2>3. CASE take' # "counted"
    <3>1. Count' = n + 0 BY <2>1, <2>3 DEF Count
    <3>2. n + 0 \in 0 .. BUF BY ONLY n \in 0 .. BUF, OneMore
    <3> QED BY <3>1, <3>2
  <2> QED BY <2>2, <2>3
<1>3. Pending' = [i \in 1 .. Count' |-> buf'[Place(i - 1)']] BY DEF Pending, Count
<1>4. ASSUME NEW i \in 1 .. Count' PROVE buf'[Place(i - 1)'] \in Byte \cup {NoByte}
  <2>1. buf' \in [0 .. BUF - 1 -> Byte \cup {NoByte}] /\ bufpos' \in 0 .. BUF - 1 BY DEF Types
  <2>2. PICK p \in 0 .. BUF - 1 : p = bufpos' BY <2>1
  <2>3. PICK n \in 0 .. BUF : n = Count' BY <1>2
  <2>4. i \in 1 .. n BY <2>3
  <2>5. Place(i - 1)' = (p + (i - 1)) % BUF BY <2>2 DEF Place
  <2>6. Place(i - 1)' \in 0 .. BUF - 1 BY <1>1, <2>4, <2>5
  <2> QED BY <2>1, <2>6
<1> HIDE DEF Count
<1>5. Pending' \in [1 .. Count' -> Byte \cup {NoByte}] BY <1>3, <1>4
<1>6. Pending' \in Seq(Byte \cup {NoByte}) /\ Len(Pending') = Count' BY <1>2, <1>5
<1> QED BY <1>2, <1>3, <1>6

\* What is not in the ring may change.
LEMMA PendingSame ==
    ASSUME Types, RingInv, Types', RingInv', bufpos' = bufpos, Count' = Count,
           \A i \in 1 .. Count : buf'[Place(i - 1)] = buf[Place(i - 1)]
    PROVE  Pending' = Pending
<1>1. Pending' = [i \in 1 .. Count' |-> buf'[Place(i - 1)']] BY DEF Pending, Count
<1>2. Pending = [i \in 1 .. Count |-> buf[Place(i - 1)]] BY DEF Pending, Count
<1>3. \A i : Place(i - 1)' = Place(i - 1) BY DEF Place
<1> HIDE DEF Count
<1>4. Pending' = [i \in 1 .. Count |-> buf'[Place(i - 1)]] BY <1>1, <1>3
<1> QED BY <1>2, <1>4

LEMMA PendingStill ==
    ASSUME UNCHANGED <<ring, take>>
    PROVE  Pending' = Pending
  BY DEF ring, Pending, Place

\* Whatever is put in comes after what the ring holds.
LEMMA StoreKeepsPending ==
    ASSUME ~ THREADED, CommonInv, RingInv, Types', RingInv', SendStore
    PROVE  Pending' = Pending
<1>0. Types /\ TakeInv /\ BUF \in Nat \ {0} BY KeyboardAssumption DEF CommonInv
<1>1. take = "idle" /\ UNCHANGED <<bufpos, buffers, take>>
  <2>1. todo # << >> BY DEF SendStore
  <2> QED BY <1>0, <2>1, Alone DEF SendStore, callback
<1>2. Count = buffers /\ Count' = buffers BY <1>1 DEF Count, RingInv
<1>3. ASSUME NEW i \in 1 .. Count PROVE buf'[Place(i - 1)] = buf[Place(i - 1)]
  <2>1. CASE ~ HasRoom BY <2>1 DEF SendStore
  <2>2. CASE HasRoom
    <3>1. buf' = [buf EXCEPT ![Place(buffers)] = Head(todo)] BY <2>2 DEF SendStore
    <3>2. /\ i - 1 \in 0 .. BUF /\ i - 1 < BUF /\ buffers \in 0 .. BUF /\ i - 1 < buffers
          /\ buffers < BUF
      BY <1>0, <1>2, <2>2 DEF RingInv, HasRoom
    <3>3. Place(i - 1) # Place(buffers)
      <4> SUFFICES ASSUME Place(i - 1) = Place(buffers) PROVE FALSE OBVIOUS
      <4>1. buffers = BUF BY <1>0, <3>2, PlaceInjective
      <4> QED BY <1>0, <3>2, <4>1
    <3>4. Place(i - 1) \in 0 .. BUF - 1 BY <1>0, <3>2, PlaceValue
    <3> QED BY <1>0, <3>1, <3>3, <3>4 DEF Types
  <2> QED BY <2>1, <2>2
<1> QED BY <1>0, <1>1, <1>2, <1>3, PendingSame

\* The byte that is counted comes after all others.
LEMMA CountAppends ==
    ASSUME ~ THREADED, CommonInv, RingInv, Types', RingInv', SendCount
    PROVE  Pending' = Append(Pending, Head(todo)) /\ Len(Pending) < BUF /\ Head(todo) \in Byte
<1>0. Types /\ PutInv /\ TakeInv /\ BUF \in Nat \ {0} BY KeyboardAssumption DEF CommonInv
<1>1. /\ put = "loaded" /\ buffers' = copy + 1 /\ UNCHANGED <<buf, bufpos, callback, data, todo>>
  BY DEF SendCount
<1>2. take = "idle" /\ take' = "idle" BY <1>0, <1>1, Alone DEF callback
<1>3. /\ buffers \in 0 .. BUF /\ buffers < BUF /\ buffers' = buffers + 1
      /\ buf[Place(buffers)] = Head(todo)
  BY <1>1 DEF RingInv
<1>4. Count = buffers /\ Count' = buffers + 1 BY <1>2, <1>3 DEF Count
<1>5. todo # << >> /\ Head(todo) \in Byte
  <2>1. todo # << >> /\ todo \in Seq(Byte) BY <1>0, <1>1 DEF PutInv, Types
  <2> QED BY <2>1, TailFacts
<1> DEFINE b == Head(todo)  n == buffers
<1>6. /\ Pending \in Seq(Byte \cup {NoByte}) /\ Len(Pending) = n
      /\ \A i \in 1 .. n : Pending[i] = buf[Place(i - 1)]
  BY <1>0, <1>4, PendingFacts
<1>7. /\ Pending' \in Seq(Byte \cup {NoByte}) /\ Len(Pending') = n + 1
      /\ \A i \in 1 .. n + 1 : Pending'[i] = buf'[Place(i - 1)']
  BY <1>4, PendingNext
<1>8. \A i : Place(i - 1)' = Place(i - 1) BY <1>1 DEF Place
<1> HIDE DEF b, n
<1>9. n \in Nat /\ n = buffers /\ b = Head(todo) BY <1>0, <1>3 DEF n, b
<1>10. /\ Append(Pending, b) \in Seq(Byte \cup {NoByte}) /\ Len(Append(Pending, b)) = n + 1
       /\ \A i \in 1 .. n : Append(Pending, b)[i] = Pending[i]
       /\ Append(Pending, b)[n + 1] = b
  BY <1>5, <1>6, <1>9, AppendProperties
<1>11. \A i \in 1 .. n + 1 : Pending'[i] = Append(Pending, b)[i]
  <2> SUFFICES ASSUME NEW i \in 1 .. n + 1 PROVE Pending'[i] = Append(Pending, b)[i] OBVIOUS
  <2>1. Pending'[i] = buf[Place(i - 1)] BY <1>1, <1>7, <1>8
  <2>2. CASE i = n + 1
    <3>1. i - 1 = buffers BY <1>9, <2>2
    <3> QED BY <1>3, <1>9, <1>10, <2>1, <2>2, <3>1
  <2>3. CASE i # n + 1
    <3>1. i \in 1 .. n BY <1>9, <2>3
    <3> QED BY <1>6, <1>10, <2>1, <3>1
  <2> QED BY <2>2, <2>3
<1>12. Pending' = Append(Pending, b) BY <1>7, <1>10, <1>11, SeqEqual
<1>13. Len(Pending) < BUF /\ b \in Byte BY <1>3, <1>5, <1>6, <1>9
<1> QED BY <1>9, <1>12, <1>13

LEMMA StepPut ==
    ASSUME ~ THREADED, CommonInv, RingInv, Types', RingInv', SendCount
    PROVE  Queue!Put
<1>1. UNCHANGED data BY DEF SendCount
<1> QED BY <1>1, CountAppends DEF Queue!Put

LEMMA StepTake ==
    ASSUME CommonInv, RingInv, Types', RingInv', TakeByte
    PROVE  Queue!Take
<1>0. Types /\ TakeInv /\ BUF \in Nat \ {0} BY KeyboardAssumption DEF CommonInv
<1>1. /\ take = "counted" /\ take' = "idle" /\ data' = buf[bufpos] /\ bufpos' = Place(1)
      /\ UNCHANGED <<buf, buffers>>
  BY DEF TakeByte
<1>2. buffers \in 0 .. BUF /\ buffers < BUF BY <1>1 DEF RingInv
<1> DEFINE n == buffers
<1>3. Count = n + 1 /\ Count' = n /\ n \in 0 .. BUF - 1 BY <1>0, <1>1, <1>2 DEF Count
<1>4. /\ Pending \in Seq(Byte \cup {NoByte}) /\ Len(Pending) = n + 1
      /\ \A i \in 1 .. n + 1 : Pending[i] = buf[Place(i - 1)]
  BY <1>0, <1>3, PendingFacts
<1>5. /\ Pending' \in Seq(Byte \cup {NoByte}) /\ Len(Pending') = n
      /\ \A i \in 1 .. n : Pending'[i] = buf'[Place(i - 1)']
  BY <1>3, PendingNext
<1>6. \A i \in 0 .. BUF - 1 : Place(i)' = Place(i + 1) BY <1>0, <1>1, PlaceAfterTake
<1> HIDE DEF n
<1>7. n \in Nat BY <1>0, <1>3
<1>8. Pending # << >>
  <2> SUFFICES ASSUME Pending = << >> PROVE FALSE OBVIOUS
  <2>1. Len(Pending) = 0 BY EmptySeq
  <2> QED BY <1>4, <1>7, <2>1
<1>9. /\ Head(Pending) = Pending[1]
      /\ Tail(Pending) \in Seq(Byte \cup {NoByte}) /\ Len(Tail(Pending)) = n
      /\ \A i \in 1 .. n : Tail(Pending)[i] = Pending[i + 1]
  <2>1. Len(Pending) - 1 = n BY <1>4, <1>7
  <2>2. /\ Head(Pending) = Pending[1]
        /\ Tail(Pending) \in Seq(Byte \cup {NoByte}) /\ Len(Tail(Pending)) = Len(Pending) - 1
        /\ \A i \in 1 .. Len(Pending) - 1 : Tail(Pending)[i] = Pending[i + 1]
    BY <1>4, <1>8, TailFacts
  <2> QED BY <2>1, <2>2
<1>10. Head(Pending) = buf[bufpos]
  <2>1. 1 \in 1 .. n + 1 /\ 1 - 1 = 0 BY <1>7
  <2>2. Place(0) = bufpos
    <3>1. bufpos \in 0 .. BUF - 1 /\ 0 \in 0 .. BUF /\ bufpos + 0 < BUF BY <1>0 DEF Types
    <3>2. Place(0) = bufpos + 0 BY <1>0, <3>1, PlaceValue
    <3> QED BY <3>1, <3>2
  <2> QED BY <1>4, <1>9, <2>1, <2>2
<1>11. \A i \in 1 .. n : Pending'[i] = Tail(Pending)[i]
  <2> SUFFICES ASSUME NEW i \in 1 .. n PROVE Pending'[i] = Tail(Pending)[i] OBVIOUS
  <2>1. i - 1 \in 0 .. BUF - 1 /\ (i - 1) + 1 = i /\ i + 1 \in 1 .. n + 1 /\ (i + 1) - 1 = i
    BY <1>0, <1>3, <1>7
  <2>2. Place(i - 1)' = Place(i) BY <1>6, <2>1
  <2>3. Pending'[i] = buf[Place(i)] BY <1>1, <1>5, <2>2
  <2>4. Pending[i + 1] = buf[Place(i)] BY <1>4, <2>1
  <2> QED BY <1>9, <2>3, <2>4
<1>12. Pending' = Tail(Pending) BY <1>5, <1>9, <1>11, SeqEqual
<1> QED BY <1>1, <1>8, <1>10, <1>12 DEF Queue!Take

LEMMA StepRestart ==
    ASSUME ~ THREADED, CommonInv, RingInv, Types', RingInv', KeyboardResetsignal
    PROVE  Queue!Restart
<1>0. Types /\ TakeInv /\ BUF \in Nat \ {0} BY KeyboardAssumption DEF CommonInv
<1>1. /\ ~ called /\ buffers' = Len(Resent) /\ UNCHANGED <<bufpos, data, callback>>
  BY DEF KeyboardResetsignal, GuestTurn
<1>2. take' = "idle" BY <1>0, <1>1 DEF TakeInv, callback
<1> DEFINE n == Len(Resent)
<1>3. /\ n \in Nat /\ n =< BUF
      /\ \A i \in 1 .. n : Resent[i] \in Byte
      /\ \A i, j \in 1 .. n : Resent[i] = Resent[j] => i = j
  BY ResentFacts
<1>4. Count' = n BY <1>1, <1>2, <1>3 DEF Count
<1>5. /\ DOMAIN Pending' = 1 .. n /\ Pending' \in Seq(Byte \cup {NoByte})
      /\ \A i \in 1 .. n : Pending'[i] = buf'[Place(i - 1)']
  BY <1>4, PendingNext
<1>6. \A i : Place(i - 1)' = Place(i - 1) BY <1>1 DEF Place
<1>7. \A i \in 1 .. n : Pending'[i] = Resent[i] BY <1>0, <1>5, <1>6, ResetRing
<1> HIDE DEF n
<1>8. Pending' = [i \in 1 .. n |-> Pending'[i]] BY <1>5
<1>9. Pending' \in [1 .. n -> Byte] BY <1>3, <1>7, <1>8
<1>10. \A i, j \in DOMAIN Pending' : Pending'[i] = Pending'[j] => i = j BY <1>3, <1>5, <1>7
<1>11. n \in 0 .. BUF BY <1>0, <1>3
<1> QED BY <1>1, <1>9, <1>10, <1>11 DEF Queue!Restart

LEMMA StepQueue ==
    ASSUME ~ THREADED, CommonInv, CommonInv', RingInv, RingInv', [Next]_vars
    PROVE  [Queue!Next]_(Queue!vars)
<1> SUFFICES Queue!Next \/ UNCHANGED <<Pending, data>> BY DEF Queue!vars
<1>0. Types /\ Types' /\ TakeInv BY DEF CommonInv
<1>1. CASE Host
  BY <1>1, PendingStill DEF Host, KeyDown, KeyUp, AllRelease, callback
<1>2. CASE SendStore BY <1>0, <1>2, StoreKeepsPending DEF SendStore
<1>3. CASE SendLoad BY <1>3, PendingStill DEF SendLoad, callback
<1>4. CASE SendCount BY <1>0, <1>4, StepPut DEF Queue!Next
<1>5. CASE SendArm \/ SendRefused BY <1>5, PendingStill DEF SendArm, SendRefused, callback
<1>6. CASE Expire BY <1>6, PendingStill DEF Expire, callback
<1>7. CASE KeyboardCallback
  <2>1. take = "idle" /\ UNCHANGED ring BY <1>7, CallbackCases
  <2>2. Pending' = Pending
    <3>1. take' \in {"idle", "loaded"} BY <1>7, <2>1, CallbackCases DEF callback
    <3>2. Count' = Count BY <2>1, <3>1 DEF Count, ring
    <3> QED BY <1>0, <2>1, <3>2, PendingSame DEF ring
  <2>3. data' = data \/ (ctr # << >> /\ data' = Head(ctr)) BY <1>7, CallbackCases
  <2>4. CASE ctr # << >> /\ data' = Head(ctr)
    <3>1. data' \in Reply BY <1>0, <2>4, TailFacts DEF Types
    <3> QED BY <2>2, <3>1 DEF Queue!Next, Queue!Answer
  <2> QED BY <2>2, <2>3, <2>4
<1>8. CASE TakeCount
  <2>1. /\ take = "loaded" /\ take' = "counted" /\ buffers' = taken - 1
        /\ UNCHANGED <<buf, bufpos, data>>
    BY <1>8 DEF TakeCount
  <2>2. taken = buffers /\ buffers \in 0 .. BUF BY <2>1 DEF RingInv
  <2>3. BUF \in Nat BY KeyboardAssumption
  <2>4. Count' = Count BY <2>1, <2>2, <2>3 DEF Count
  <2> QED BY <1>0, <2>1, <2>4, PendingSame
<1>9. CASE TakeByte BY <1>0, <1>9, StepTake DEF Queue!Next
<1>10. CASE Acknowledge BY <1>10, PendingStill DEF Acknowledge, callback
<1>11. CASE KeyboardI41 BY <1>11, PendingStill DEF KeyboardI41, callback
<1>12. CASE KeyboardResetsignal BY <1>0, <1>12, StepRestart DEF Queue!Next
<1>13. CASE \/ \E c \in COMMANDS : SendCommand(c)
            \/ \E p \in Parameter : SendParameter(p)
  BY <1>13, PendingStill DEF SendCommand, SendParameter, callback
<1>14. CASE UNCHANGED vars BY <1>14, PendingStill DEF vars, callback
<1> QED
  BY <1>1, <1>2, <1>3, <1>4, <1>5, <1>6, <1>7, <1>8, <1>9, <1>10, <1>11, <1>12, <1>13, <1>14
  DEF Next, Send, Callback, Guest

LEMMA InitQueue == ASSUME Init PROVE Pending = << >>
<1>1. Pending = [i \in 1 .. 0 |-> buf[Place(i - 1)]] BY DEF Init, Pending
<1> QED BY <1>1

\* Bytes of the keys come out once, whole and in their order, between the
\* replies, through a ring of any size; a reset starts with the keys held.
THEOREM QueueImplemented == ASSUME ~ THREADED PROVE Spec => ImplementsQueue
<1>1. Init => Pending = << >> BY InitQueue
<1>2. Init => RingInv BY InitRing
<1>3. CommonInv /\ RingInv /\ [Next]_vars => RingInv' BY NextRing
<1>4. CommonInv /\ CommonInv' /\ RingInv /\ RingInv' /\ [Next]_vars => [Queue!Next]_(Queue!vars)
  BY StepQueue
<1> QED BY <1>1, <1>2, <1>3, <1>4, Invariance, PTL DEF Spec, ImplementsQueue, Queue!Spec

-----------------------------------------------------------------------------
(***************************************************************************)
(* What the guest is told                                                  *)
(***************************************************************************)

Sent == Byte \cup Reply \cup {NoByte}

Said(q, k) == {i \in DOMAIN q : q[i] \in Byte /\ q[i].key = k}

Ends(table, q, k) ==
    IF Said(q, k) = {} THEN k \in table
    ELSE \E last \in Said(q, k) : ~ q[last].up /\ \A i \in Said(q, k) : i =< last

LEMMA ToldIs ==
    ASSUME NEW table, NEW q
    PROVE  Told(table, q) = {k \in KEY : Ends(table, q, k)}
  BY DEF Told, Ends, Said

\* Bytes that say nothing of any key leave the table as it is.
LEMMA ToldNothing ==
    ASSUME NEW table \in SUBSET KEY, NEW q \in Seq(Sent), \A i \in 1 .. Len(q) : q[i] \notin Byte
    PROVE  Told(table, q) = table
<1>1. ASSUME NEW k \in KEY PROVE Said(q, k) = {} BY DEF Said
<1>2. ASSUME NEW k \in KEY PROVE Ends(table, q, k) <=> k \in table BY <1>1 DEF Ends
<1> QED BY <1>2, ToldIs

\* One byte is what the handler makes of it.
LEMMA ToldOne ==
    ASSUME NEW table \in SUBSET KEY, NEW b \in Sent
    PROVE  /\ <<b>> \in Seq(Sent)
           /\ Told(table, <<b>>) = Noted(table, b)
           /\ Noted(table, b) \in SUBSET KEY
<1> DEFINE q == <<b>>
<1>1. q \in Seq(Sent) /\ Len(q) = 1 /\ DOMAIN q = {1} /\ q[1] = b OBVIOUS
<1> HIDE DEF q
<1>2. CASE b \notin Byte
  <2>1. b = NoByte \/ IsReply(b) BY <1>2 DEF Sent, IsReply
  <2>2. Noted(table, b) = table BY <2>1 DEF Noted
  <2>3. Told(table, q) = table BY <1>1, <1>2, ToldNothing
  <2> QED BY <1>1, <2>2, <2>3 DEF q
<1>3. CASE b \in Byte
  <2>1. b # NoByte /\ ~ IsReply(b) BY <1>3, ByteFacts DEF IsReply
  <2>2. Noted(table, b) = IF b.up THEN table \ {b.key} ELSE table \cup {b.key}
    BY <2>1 DEF Noted
  <2>3. b.key \in KEY /\ b.up \in BOOLEAN BY <1>3 DEF Byte
  <2>4. ASSUME NEW k \in KEY PROVE Ends(table, q, k) <=> k \in Noted(table, b)
    <3>1. CASE k = b.key
      <4>1. Said(q, k) = {1} BY <1>1, <1>3, <3>1 DEF Said
      <4>2. Ends(table, q, k) <=> ~ q[1].up BY <4>1 DEF Ends
      <4> QED BY <1>1, <2>2, <3>1, <4>2
    <3>2. CASE k # b.key
      <4>1. Said(q, k) = {} BY <1>1, <3>2 DEF Said
      <4> QED BY <2>2, <3>2, <4>1 DEF Ends
    <3> QED BY <3>1, <3>2
  <2>5. Noted(table, b) \in SUBSET KEY BY <2>2, <2>3
  <2>6. Told(table, q) = Noted(table, b) BY <2>4, <2>5, ToldIs
  <2> QED BY <1>1, <2>5, <2>6 DEF q
<1> QED BY <1>2, <1>3

LEMMA ToldType ==
    ASSUME NEW table, NEW q
    PROVE  Told(table, q) \in SUBSET KEY
  BY DEF Told

\* The table is told one part after the other.
LEMMA ToldConcat ==
    ASSUME NEW table \in SUBSET KEY, NEW p \in Seq(Sent), NEW q \in Seq(Sent)
    PROVE  /\ p \o q \in Seq(Sent)
           /\ Told(table, p \o q) = Told(Told(table, p), q)
<1> DEFINE r == p \o q  n == Len(p)  m == Len(q)
<1>1. /\ r \in Seq(Sent) /\ Len(r) = n + m /\ n \in Nat /\ m \in Nat
      /\ \A i \in 1 .. n + m : r[i] = IF i =< n THEN p[i] ELSE q[i - n]
      /\ DOMAIN r = 1 .. n + m /\ DOMAIN p = 1 .. n /\ DOMAIN q = 1 .. m
  BY ConcatProperties
<1> HIDE DEF r, n, m
<1>2. ASSUME NEW k \in KEY
      PROVE  Ends(table, r, k) <=> Ends(Told(table, p), q, k)
  <2> DEFINE A == Said(p, k)  B == Said(q, k)  C == Said(r, k)
  <2>1. A \subseteq 1 .. n /\ B \subseteq 1 .. m /\ C \subseteq 1 .. n + m
    BY <1>1 DEF Said
  <2>2. \A i \in 1 .. n : i \in 1 .. n + m /\ r[i] = p[i] /\ (i \in A <=> i \in C)
    BY <1>1 DEF Said
  <2>3. ASSUME NEW j \in 1 .. m
        PROVE  n + j \in 1 .. n + m /\ r[n + j] = q[j] /\ (j \in B <=> n + j \in C)
    <3>1. n + j \in 1 .. n + m /\ ~ n + j =< n /\ (n + j) - n = j BY <1>1
    <3>2. r[n + j] = q[j] BY <1>1, <3>1
    <3> QED BY <1>1, <3>1, <3>2 DEF Said
  <2>4. ASSUME NEW i \in C, ~ i =< n PROVE i - n \in 1 .. m /\ i = n + (i - n) /\ i - n \in B
    <3>1. i - n \in 1 .. m /\ i = n + (i - n) BY <1>1, <2>1, <2>4
    <3> QED BY <2>3, <2>4, <3>1
  <2>5. k \in Told(table, p) <=> Ends(table, p, k) BY ToldIs
  <2>6. CASE B = {}
    <3>1. \A i \in C : i =< n /\ i \in A
      <4> SUFFICES ASSUME NEW i \in C PROVE i =< n /\ i \in A OBVIOUS
      <4>1. i =< n BY <2>4, <2>6
      <4>2. i \in 1 .. n BY <1>1, <2>1, <4>1
      <4> QED BY <2>2, <4>1, <4>2
    <3>2. A = C BY <2>1, <2>2, <3>1
    <3>3. \A i \in A : r[i] = p[i] BY <2>1, <2>2
    <3>4. Ends(table, r, k) <=> Ends(table, p, k)
      <4> HIDE DEF A, C
      <4>1. A = Said(p, k) /\ C = Said(r, k) BY DEF A, C
      <4> QED BY <3>2, <3>3, <4>1 DEF Ends
    <3>5. Ends(Told(table, p), q, k) <=> k \in Told(table, p) BY <2>6 DEF Ends
    <3> QED BY <2>5, <3>4, <3>5
  <2>7. CASE B # {}
    <3>1. PICK j0 \in B : TRUE BY <2>7
    <3>2. j0 \in 1 .. m /\ n + j0 \in C BY <2>1, <2>3
    <3>3. C # {} BY <3>2
    <3>4. ASSUME NEW last \in C, ~ r[last].up, \A i \in C : i =< last
          PROVE  \E l \in B : ~ q[l].up /\ \A i \in B : i =< l
      <4>1. n + j0 =< last BY <3>2, <3>4
      <4>2. ~ last =< n BY <1>1, <2>1, <3>2, <3>4, <4>1
      <4>3. PICK l \in 1 .. m : l = last - n /\ last = n + l /\ l \in B BY <2>4, <3>4, <4>2
      <4>4. r[last] = q[l] BY <2>3, <4>3
      <4>5. ASSUME NEW i \in B PROVE i =< l
        <5>1. i \in 1 .. m /\ n + i \in C BY <2>1, <2>3
        <5>2. n + i =< n + l BY <3>4, <4>3, <5>1
        <5> QED BY <1>1, <5>1, <5>2
      <4> QED BY <3>4, <4>3, <4>4, <4>5
    <3>5. ASSUME NEW l \in B, ~ q[l].up, \A i \in B : i =< l
          PROVE  \E last \in C : ~ r[last].up /\ \A i \in C : i =< last
      <4>1. l \in 1 .. m /\ n + l \in C /\ r[n + l] = q[l] BY <2>1, <2>3
      <4>2. ASSUME NEW i \in C PROVE i =< n + l
        <5>1. CASE i =< n BY <1>1, <2>1, <4>1, <5>1
        <5>2. CASE ~ i =< n
          <6>1. i - n \in 1 .. m /\ i = n + (i - n) /\ i - n =< l BY <2>4, <3>5, <5>2
          <6> QED BY <1>1, <2>1, <4>1, <6>1
        <5> QED BY <5>1, <5>2
      <4> QED BY <3>5, <4>1, <4>2
    <3> QED BY <2>7, <3>3, <3>4, <3>5 DEF Ends
  <2> QED BY <2>6, <2>7
<1>3. Told(table, r) = Told(Told(table, p), q) BY <1>2, ToldIs
<1> QED BY <1>1, <1>3 DEF r

\* What a key is in the end depends on the table in this key only, and not even
\* on that if a byte says something of the key.
LEMMA ToldAgree ==
    ASSUME NEW t, NEW u, NEW q, NEW k \in KEY, k \in t <=> k \in u
    PROVE  k \in Told(t, q) <=> k \in Told(u, q)
<1>1. Ends(t, q, k) <=> Ends(u, q, k) BY DEF Ends
<1> QED BY <1>1, ToldIs

LEMMA ToldAnyway ==
    ASSUME NEW t, NEW u, NEW q, NEW k \in KEY, Said(q, k) # {}
    PROVE  k \in Told(t, q) <=> k \in Told(u, q)
<1>1. Ends(t, q, k) <=> Ends(u, q, k) BY DEF Ends
<1> QED BY <1>1, ToldIs

Out == IF full /\ take = "idle" THEN <<data>> ELSE << >>

Rest == IF put \in {"counted", "refused"} THEN Tail(todo) ELSE todo

LEMMA SentTypes ==
    /\ \A b \in Byte \cup Reply \cup {NoByte} : b \in Sent
    /\ Seq(Byte) \subseteq Seq(Sent) /\ Seq(Byte \cup {NoByte}) \subseteq Seq(Sent)
    /\ << >> \in Seq(Sent)
<1>1. Byte \subseteq Sent /\ Byte \cup {NoByte} \subseteq Sent BY DEF Sent
<1>2. Seq(Byte) \subseteq Seq(Sent) /\ Seq(Byte \cup {NoByte}) \subseteq Seq(Sent)
  BY <1>1, SeqMonotonic
<1>3. << >> \in Seq(Sent) BY EmptySeq
<1> QED BY <1>2, <1>3 DEF Sent

LEMMA PartTypes ==
    ASSUME CommonInv, RingInv
    PROVE  Out \in Seq(Sent) /\ Pending \in Seq(Sent) /\ Rest \in Seq(Sent) /\ down \in SUBSET KEY
<1>0. Types /\ PutInv BY DEF CommonInv
<1>1. Out \in Seq(Sent)
  <2>1. data \in Sent BY <1>0 DEF Types, Sent
  <2>2. <<data>> \in Seq(Sent) BY <2>1
  <2> QED BY <2>2, SentTypes DEF Out
<1>2. Pending \in Seq(Sent) BY <1>0, PendingFacts, SentTypes
<1>3. Rest \in Seq(Sent)
  <2>1. todo \in Seq(Byte) BY <1>0 DEF Types
  <2>2. put \in {"counted", "refused"} => Tail(todo) \in Seq(Byte) BY <1>0, <2>1, TailFacts DEF PutInv
  <2> QED BY <2>1, <2>2, SentTypes DEF Rest
<1> QED BY <1>0, <1>1, <1>2, <1>3 DEF Types

LEMMA PartTypesNext ==
    ASSUME CommonInv', RingInv'
    PROVE  Out' \in Seq(Sent) /\ Pending' \in Seq(Sent) /\ Rest' \in Seq(Sent) /\ down' \in SUBSET KEY
<1>0. Types' /\ PutInv' BY DEF CommonInv
<1>1. Out' \in Seq(Sent)
  <2>1. data' \in Sent BY <1>0 DEF Types, Sent
  <2>2. <<data'>> \in Seq(Sent) BY <2>1
  <2> QED BY <2>2, SentTypes DEF Out
<1>2. Pending' \in Seq(Sent) BY <1>0, PendingNext, SentTypes
<1>3. Rest' \in Seq(Sent)
  <2>1. todo' \in Seq(Byte) BY <1>0 DEF Types
  <2>2. put' \in {"counted", "refused"} => Tail(todo') \in Seq(Byte) BY <1>0, <2>1, TailFacts DEF PutInv
  <2> QED BY <2>1, <2>2, SentTypes DEF Rest
<1> QED BY <1>0, <1>1, <1>2, <1>3 DEF Types

LEMMA ToldParts ==
    ASSUME NEW t \in SUBSET KEY, NEW o \in Seq(Sent), NEW p \in Seq(Sent), NEW r \in Seq(Sent)
    PROVE  Told(t, o \o p \o r) = Told(Told(Told(t, o), p), r)
<1>1. o \o p \in Seq(Sent) /\ Told(t, o \o p) = Told(Told(t, o), p) BY ToldConcat
<1>2. Told(t, (o \o p) \o r) = Told(Told(t, o \o p), r) BY <1>1, ToldConcat
<1> QED BY <1>1, <1>2

\* What the guest knows in the end, part by part
Known == Told(Told(Told(down, Out), Pending), Rest)

LEMMA KnownIs ==
    ASSUME CommonInv, RingInv
    PROVE  HeldKeysAreKnown <=> \A k \in KEY \ lost : k \in Known <=> k \in Held
<1>1. OnTheirWay = Out \o Pending \o Rest BY DEF OnTheirWay, Out, Rest
<1>2. Told(down, OnTheirWay) = Known BY <1>1, PartTypes, ToldParts DEF Known
<1>3. Known \subseteq KEY /\ Held \subseteq KEY BY ToldType DEF Known, Held
<1> QED BY <1>2, <1>3 DEF HeldKeysAreKnown, ReleasedKeysAreUp

\* Nothing was said.
LEMMA ToldEmpty == ASSUME NEW t \in SUBSET KEY PROVE Told(t, << >>) = t
<1>1. << >> \in Seq(Sent) /\ Len(<< >>) = 0 BY SentTypes, EmptySeq
<1>2. \A i \in 1 .. Len(<< >>) : << >>[i] \notin Byte BY <1>1
<1> QED BY <1>1, <1>2, ToldNothing

\* The keys that are held change as the guest will be told.
LEMMA HostTells ==
    ASSUME Types, Host
    PROVE  Told(Held, todo') = Held'
<1>0. /\ ref \in [KEY -> OWNER \cup {NC}] /\ NC \notin OWNER /\ Held \in SUBSET KEY
      /\ Held = {k \in KEY : ref[k] # NC} /\ Held' = {k \in KEY : ref'[k] # NC}
  BY KeyboardAssumption DEF Types, Held
<1> DEFINE H == Held
<1>1. ASSUME NEW k \in KEY, NEW owner \in OWNER, KeyDown(k, owner) PROVE Told(H, todo') = Held'
  <2>1. Make(k) \in Sent /\ Break(k) \in Sent BY ByteFacts DEF Sent
  <2>2. todo' = DownBytes(k) /\ ref' = [ref EXCEPT ![k] = IF k \in SHIFT \cap H THEN @ ELSE owner]
    BY <1>1 DEF KeyDown
  <2>3. Held' = H \cup {k} BY <1>0, <2>2
  <2>4. \A t \in SUBSET KEY : Noted(t, Make(k)) = t \cup {k} /\ Noted(t, Break(k)) = t \ {k}
    <3>1. /\ Make(k) # NoByte /\ ~ IsReply(Make(k)) /\ Break(k) # NoByte /\ ~ IsReply(Break(k))
      BY ByteFacts DEF IsReply
    <3>2. Make(k).key = k /\ ~ Make(k).up /\ Break(k).key = k /\ Break(k).up BY DEF Make, Break
    <3> QED BY <3>1, <3>2 DEF Noted
  <2>5. CASE DownBytes(k) = <<Make(k)>>
    <3>1. Told(H, todo') = H \cup {k} BY <1>0, <2>1, <2>2, <2>4, <2>5, ToldOne
    <3> QED BY <2>3, <3>1
  <2>6. CASE k \in H /\ DownBytes(k) = << >>
    <3>1. Told(H, todo') = H BY <1>0, <2>2, <2>6, ToldEmpty
    <3> QED BY <2>3, <2>6, <3>1
  <2>7. CASE DownBytes(k) = <<Break(k), Make(k)>>
    <3>1. <<Break(k), Make(k)>> = <<Break(k)>> \o <<Make(k)>> OBVIOUS
    <3>2. Told(H, <<Break(k)>>) = H \ {k} /\ <<Break(k)>> \in Seq(Sent) /\ <<Make(k)>> \in Seq(Sent)
      BY <1>0, <2>1, <2>4, ToldOne
    <3>3. Told(H \ {k}, <<Make(k)>>) = (H \ {k}) \cup {k} BY <1>0, <2>1, <2>4, ToldOne
    <3>4. Told(H, <<Break(k)>> \o <<Make(k)>>) = Told(Told(H, <<Break(k)>>), <<Make(k)>>)
      BY <1>0, <3>2, ToldConcat
    <3>5. todo' = <<Break(k)>> \o <<Make(k)>> BY <2>2, <2>7, <3>1
    <3> QED BY <2>3, <3>2, <3>3, <3>4, <3>5
  <2> QED BY <2>5, <2>6, <2>7 DEF DownBytes
<1>2. ASSUME NEW k \in KEY, NEW owner \in OWNER, KeyUp(k, owner) PROVE Told(H, todo') = Held'
  <2>1. Break(k) \in Sent BY ByteFacts DEF Sent
  <2>2. todo' = <<Break(k)>> /\ ref' = [ref EXCEPT ![k] = NC] BY <1>2 DEF KeyUp
  <2>3. Held' = H \ {k} BY <1>0, <2>2
  <2>4. Noted(H, Break(k)) = H \ {k}
    <3>1. Break(k) # NoByte /\ ~ IsReply(Break(k)) BY ByteFacts DEF IsReply
    <3>2. Break(k).key = k /\ Break(k).up BY DEF Break
    <3> QED BY <3>1, <3>2 DEF Noted
  <2>5. Told(H, todo') = H \ {k} BY <1>0, <2>1, <2>2, <2>4, ToldOne
  <2> QED BY <2>3, <2>5
<1>3. ASSUME AllRelease PROVE Told(H, todo') = Held'
  <2> DEFINE n == Cardinality(Held)  f == SetToSeq(Held)
  <2>1. todo' = [i \in 1 .. n |-> Break(f[i])] /\ ref' = [k \in KEY |-> NC]
    BY <1>3 DEF AllRelease
  <2>2. Held' = {} BY <1>0, <2>1
  <2>3. /\ n \in Nat /\ f \in [1 .. n -> Held] /\ Held \subseteq KEY
        /\ \A k \in Held : \E i \in 1 .. n : f[i] = k
    BY HeldFacts
  <2> HIDE DEF n, f
  <2>4. \A i \in 1 .. n : todo'[i] \in Byte /\ todo'[i].key = f[i] /\ todo'[i].up
    BY <2>1, <2>3, ByteFacts DEF Break
  <2>5. DOMAIN todo' = 1 .. n BY <2>1
  <2>6. ASSUME NEW k \in KEY PROVE ~ Ends(H, todo', k)
    <3>1. \A i \in Said(todo', k) : todo'[i].up BY <2>4, <2>5 DEF Said
    <3>2. k \in H => Said(todo', k) # {} BY <2>3, <2>4, <2>5 DEF Said
    <3> QED BY <3>1, <3>2 DEF Ends
  <2>7. Told(H, todo') = {} BY <2>6, ToldIs
  <2> QED BY <2>2, <2>7
<1> QED BY <1>1, <1>2, <1>3 DEF Host

\* After a reset the guest is told which keys are held.
LEMMA ResetTells == Told({}, Resent) = Held
<1>1. /\ DOMAIN Resent = 1 .. Len(Resent) /\ Held \subseteq KEY
      /\ \A i \in 1 .. Len(Resent) : Resent[i] \in Byte /\ Resent[i].key \in Held /\ ~ Resent[i].up
      /\ \A i, j \in 1 .. Len(Resent) : Resent[i] = Resent[j] => i = j
      /\ \A k \in Held : \E i \in 1 .. Len(Resent) : Resent[i] = Make(k)
      /\ Len(Resent) \in Nat
  BY ResentFacts, HeldFacts
<1>2. ASSUME NEW k \in KEY PROVE Ends({}, Resent, k) <=> k \in Held
  <2>1. CASE k \notin Held
    <3>1. Said(Resent, k) = {} BY <1>1, <2>1 DEF Said
    <3> QED BY <2>1, <3>1 DEF Ends
  <2>2. CASE k \in Held
    <3>1. PICK i \in 1 .. Len(Resent) : Resent[i] = Make(k) BY <1>1, <2>2
    <3>2. i \in Said(Resent, k) /\ ~ Resent[i].up
      <4>1. Resent[i].key = k BY <3>1 DEF Make
      <4> QED BY <1>1, <4>1 DEF Said
    <3>3. ASSUME NEW j \in Said(Resent, k) PROVE j = i
      <4>1. j \in 1 .. Len(Resent) /\ Resent[j] \in Byte /\ Resent[j].key = k /\ ~ Resent[j].up
        BY <1>1, <3>3 DEF Said
      <4>2. Resent[j] = Make(k) BY <4>1 DEF Make, Byte
      <4> QED BY <1>1, <3>1, <4>1, <4>2
    <3>4. \A j \in Said(Resent, k) : j =< i BY <1>1, <3>1, <3>3
    <3> QED BY <2>2, <3>2, <3>4 DEF Ends
  <2> QED BY <2>1, <2>2
<1> QED BY <1>1, <1>2, ToldIs

\* The guest is told of each key it is not wrong about.
KnownInv == \A k \in KEY \ lost : k \in Known <=> k \in Held

\* The bytes still to be sent tell how a key ends up.
TodoInv == \A k \in KEY : Said(todo, k) # {} => (k \in Told({}, todo) <=> k \in Held)

\* A byte said first does not change what the others say.
LEMMA TodoTail ==
    ASSUME TodoInv, Types, todo # << >>, todo' = Tail(todo), Held' = Held
    PROVE  TodoInv'
<1>1. /\ todo \in Seq(Byte) /\ Head(todo) \in Byte /\ Tail(todo) \in Seq(Byte)
      /\ Len(Tail(todo)) = Len(todo) - 1 /\ Len(todo) \in Nat \ {0}
      /\ \A i \in 1 .. Len(todo) - 1 : Tail(todo)[i] = todo[i + 1]
  BY TailFacts DEF Types
<1> DEFINE h == Head(todo)  q == Tail(todo)
<1>2. todo = <<h>> \o q BY <1>1
<1>3. h \in Sent /\ q \in Seq(Sent) /\ {} \in SUBSET KEY BY <1>1, SentTypes
<1>4. <<h>> \in Seq(Sent) BY <1>3
<1>5. \A k \in KEY : Said(q, k) # {} => Said(todo, k) # {}
  <2> SUFFICES ASSUME NEW k \in KEY, NEW i \in Said(q, k) PROVE i + 1 \in Said(todo, k) OBVIOUS
  <2>1. i \in 1 .. Len(todo) - 1 /\ q[i] \in Byte /\ q[i].key = k BY <1>1 DEF Said
  <2>2. i + 1 \in DOMAIN todo /\ todo[i + 1] = q[i] BY <1>1, <2>1
  <2> QED BY <2>1, <2>2 DEF Said
<1> HIDE DEF h, q
<1>6. Told({}, <<h>> \o q) = Told(Told({}, <<h>>), q) BY <1>3, <1>4, ToldConcat
<1> SUFFICES ASSUME NEW k \in KEY, Said(q, k) # {} PROVE k \in Told({}, q) <=> k \in Held
  BY DEF TodoInv, Told, Said, q
<1>7. k \in Told({}, q) <=> k \in Told(Told({}, <<h>>), q) BY ToldAnyway
<1>8. k \in Told({}, todo) <=> k \in Held BY <1>5 DEF TodoInv
<1> QED BY <1>2, <1>6, <1>7, <1>8

LEMMA NextTodo ==
    ASSUME ~ THREADED, CommonInv, CommonInv', RingInv, TodoInv, [Next]_vars
    PROVE  TodoInv'
<1>0. Types /\ PutInv BY DEF CommonInv
<1>1. ref' = ref => Held' = Held BY DEF Held
<1>2. ASSUME UNCHANGED <<todo, ref>> PROVE TodoInv' BY <1>1, <1>2 DEF TodoInv, Told, Said
<1>3. CASE Host
  <2>1. Told(Held, todo') = Held' BY <1>0, <1>3, HostTells
  <2>2. PICK q : q = todo' OBVIOUS
  <2>3. PICK H : H = Held' OBVIOUS
  <2>4. \A k \in KEY : Said(q, k) # {} => (k \in Told({}, q) <=> k \in H)
    BY <2>1, <2>2, <2>3, ToldAnyway
  <2> QED BY <2>2, <2>3, <2>4 DEF TodoInv, Told, Said
<1>4. CASE SendArm \/ SendRefused
  <2>1. todo # << >> /\ todo' = Tail(todo) /\ ref' = ref
    BY <1>0, <1>4 DEF SendArm, SendRefused, PutInv
  <2> QED BY <1>0, <1>1, <2>1, TodoTail
<1> QED
  BY <1>2, <1>3, <1>4
  DEF Next, Send, SendStore, SendLoad, SendCount, Expire, Callback, KeyboardCallback, TakeCount,
      TakeByte, Acknowledge, KeyboardI41, Guest, KeyboardResetsignal, SendCommand, SendParameter,
      vars, host

\* A byte that is accepted, or refused, tells of its own key only.
LEMMA StoreTells ==
    ASSUME CommonInv, RingInv, TodoInv, KnownInv, put = "idle", todo # << >>,
           NEW k \in KEY
    PROVE  /\ k = Head(todo).key => (k \in Known <=> k \in Held)
           /\ k # Head(todo).key =>
                 (k \in Known <=> k \in Told(Told(Told(down, Out), Pending), Tail(todo)))
<1>0. Types BY DEF CommonInv
<1> DEFINE h == Head(todo)  q == Tail(todo)  u == Told(Told(down, Out), Pending)
<1>1. todo \in Seq(Byte) /\ h \in Byte /\ q \in Seq(Byte) /\ todo = <<h>> \o q /\ todo[1] = h
  BY <1>0, TailFacts DEF Types
<1>2. Known = Told(u, todo) BY DEF Known, Rest
<1>3. h \in Sent /\ q \in Seq(Sent) /\ u \in SUBSET KEY BY <1>1, SentTypes, ToldType
<1>4. 1 \in DOMAIN todo BY <1>1
<1> HIDE DEF h, q, u
<1>5. CASE k = h.key
  <2>1. Said(todo, k) # {} BY <1>1, <1>4, <1>5 DEF Said
  <2>2. k \in Told({}, todo) <=> k \in Held BY <2>1 DEF TodoInv
  <2>3. k \in Told(u, todo) <=> k \in Told({}, todo) BY <2>1, ToldAnyway
  <2> QED BY <1>2, <1>5, <2>2, <2>3 DEF h
<1>6. CASE k # h.key
  <2>1. <<h>> \in Seq(Sent) /\ Told(u, <<h>>) = Noted(u, h) BY <1>3, ToldOne
  <2>2. Told(u, <<h>> \o q) = Told(Noted(u, h), q) BY <1>3, <2>1, ToldConcat, ZenonT(60)
  <2>3. k \in Noted(u, h) <=> k \in u BY <1>6 DEF Noted
  <2>4. k \in Told(Noted(u, h), q) <=> k \in Told(u, q) BY <2>3, ToldAgree
  <2> QED BY <1>1, <1>2, <1>6, <2>2, <2>4 DEF h, q, u
<1> QED BY <1>5, <1>6 DEF h


\* Nothing changes on the way.
LEMMA KnownSame ==
    ASSUME Out' = Out, Pending' = Pending, Rest' = Rest, down' = down
    PROVE  Known' = Known
  BY DEF Known, Told

LEMMA NextKnown ==
    ASSUME ~ THREADED, CommonInv, CommonInv', RingInv, RingInv', ReadInv, TodoInv, KnownInv,
           [Next]_vars
    PROVE  KnownInv'
<1> SUFFICES ASSUME NEW k \in KEY, k \notin lost' PROVE k \in Known' <=> k \in Held'
  BY DEF KnownInv, Known, Told
<1>0. Types /\ Types' /\ PutInv /\ TakeInv BY DEF CommonInv
<1>00. lost' = lost => (k \in Known <=> k \in Held) BY DEF KnownInv
<1>1. Out \in Seq(Sent) /\ Pending \in Seq(Sent) /\ Rest \in Seq(Sent) /\ down \in SUBSET KEY
  BY PartTypes
<1>2. Known' = Told(Told(Told(down', Out'), Pending'), Rest') BY DEF Known, Told
<1>3. ref' = ref => Held' = Held BY DEF Held
<1>4. CASE Host
  <2>1. UNCHANGED <<put, full, take, ring, data, down, lost>> /\ HostIdle
    BY <1>4 DEF Host, KeyDown, KeyUp, AllRelease, callback, guest, HostTurn
  <2>2. Pending' = Pending /\ Out' = Out BY <2>1, PendingStill DEF Out
  <2>3. Rest = << >> /\ Rest' = todo' BY <2>1 DEF HostIdle, Rest
  <2>4. Known = Told(Told(down, Out), Pending)
    <3>1. Told(Told(down, Out), Pending) \in SUBSET KEY BY ToldType
    <3> QED BY <2>3, <3>1, ToldEmpty DEF Known
  <2>5. Told(Held, todo') = Held' BY <1>0, <1>4, HostTells
  <2> DEFINE u == Told(Told(down, Out), Pending)
  <2>6. k \in u <=> k \in Held BY <1>00, <2>1, <2>4
  <2>7. Known' = Told(u, todo') BY <1>2, <2>1, <2>2, <2>3
  <2> HIDE DEF u
  <2>8. k \in Told(u, todo') <=> k \in Told(Held, todo') BY <2>6, ToldAgree
  <2> QED BY <2>5, <2>7, <2>8
<1>5. CASE SendStore
  <2>1. UNCHANGED <<ref, todo, full, data, down, take>> /\ put = "idle" /\ todo # << >>
    BY <1>5 DEF SendStore, callback
  <2>2. Pending' = Pending BY <1>0, <1>5, StoreKeepsPending
  <2>3. Out' = Out BY <2>1 DEF Out
  <2>4. CASE HasRoom
    <3>1. put' = "stored" /\ lost' \in {lost, lost \ {Head(todo).key}} BY <1>5, <2>4 DEF SendStore
    <3>2. Rest' = Rest BY <2>1, <3>1 DEF Rest
    <3>3. Known' = Known /\ Held' = Held BY <1>3, <2>1, <2>2, <2>3, <3>2, KnownSame
    <3>4. k \in lost => k = Head(todo).key BY <3>1
    <3>5. k \notin lost => (k \in Known <=> k \in Held) BY DEF KnownInv
    <3> QED BY <2>1, <3>3, <3>4, <3>5, StoreTells
  <2>5. CASE ~ HasRoom
    <3>1. put' = "refused" /\ lost' = lost \cup {Head(todo).key} BY <1>5, <2>5 DEF SendStore
    <3>2. Rest' = Tail(todo) BY <2>1, <3>1 DEF Rest
    <3>3. Known' = Told(Told(Told(down, Out), Pending), Tail(todo)) /\ Held' = Held
      BY <1>2, <1>3, <2>1, <2>2, <2>3, <3>2
    <3>4. k \in Known <=> k \in Held BY <3>1 DEF KnownInv
    <3> QED BY <2>1, <3>1, <3>3, <3>4, StoreTells
  <2> QED BY <2>4, <2>5
<1>6. CASE SendLoad
  <2>1. /\ UNCHANGED <<ref, todo, full, data, down, lost, ring, take>>
        /\ put = "stored" /\ put' = "loaded"
    BY <1>6 DEF SendLoad, callback, guest
  <2>2. Pending' = Pending BY <2>1, PendingStill
  <2>3. Out' = Out /\ Rest' = Rest BY <2>1 DEF Out, Rest
  <2> QED BY <1>3, <2>1, <2>2, <2>3, <1>00, KnownSame
\* The byte moves from what is to be sent into the ring.
<1>7. CASE SendCount
  <2>1. /\ UNCHANGED <<ref, todo, full, data, down, lost, take>>
        /\ put = "loaded" /\ put' = "counted"
    BY <1>7 DEF SendCount, callback, guest
  <2>2. todo \in Seq(Byte) /\ todo # << >> BY <1>0, <2>1 DEF Types, PutInv
  <2> DEFINE b == Head(todo)
  <2>3. b \in Byte /\ Tail(todo) \in Seq(Byte) BY <2>2, TailFacts
  <2>4. Pending' = Append(Pending, b) BY <1>0, <1>7, CountAppends
  <2>5. todo = <<b>> \o Tail(todo) BY <2>2
  <2> HIDE DEF b
  <2>6. Append(Pending, b) = Pending \o <<b>> BY <1>1
  <2>7. b \in Sent /\ Tail(todo) \in Seq(Sent) /\ <<b>> \in Seq(Sent)
    <3>1. b \in Sent BY <2>3 DEF Sent
    <3> QED BY <2>3, <3>1, SentTypes
  <2>8. Out' = Out /\ Rest = todo /\ Rest' = Tail(todo) BY <2>1 DEF Out, Rest
  <2> DEFINE t == Told(down, Out)  u == Told(t, Pending)
  <2>9. t \in SUBSET KEY /\ u \in SUBSET KEY BY ToldType
  <2>10. Known = Told(u, todo) BY <2>8 DEF Known
  <2>11. Known' = Told(Told(t, Pending \o <<b>>), Tail(todo)) BY <1>2, <2>1, <2>4, <2>6, <2>8
  <2> HIDE DEF t
  <2>12. Told(t, Pending \o <<b>>) = Told(u, <<b>>)
    <3>1. t \in SUBSET KEY /\ Pending \in Seq(Sent) /\ <<b>> \in Seq(Sent) BY <1>1, <2>7, <2>9
    <3> HIDE DEF u
    <3>2. Told(t, Pending \o <<b>>) = Told(Told(t, Pending), <<b>>) BY <3>1, ToldConcat
    <3> QED BY <3>2 DEF u
  <2> HIDE DEF u
  <2>13. Told(u, <<b>> \o Tail(todo)) = Told(Told(u, <<b>>), Tail(todo))
    BY <2>7, <2>9, ToldConcat
  <2>14. Known' = Known BY <2>5, <2>10, <2>11, <2>12, <2>13
  <2> QED BY <1>3, <1>00, <2>1, <2>14
<1>8. CASE SendArm \/ SendRefused
  <2>1. /\ UNCHANGED <<ref, full, data, down, lost, ring, take>>
        /\ put \in {"counted", "refused"} /\ put' = "idle" /\ todo' = Tail(todo)
    BY <1>0, <1>8, SendKeepsFull DEF Send, SendArm, SendRefused, callback, guest
  <2>2. Pending' = Pending BY <2>1, PendingStill
  <2>3. Out' = Out /\ Rest' = Rest BY <2>1 DEF Out, Rest
  <2> QED BY <1>3, <1>00, <2>1, <2>2, <2>3, KnownSame
<1>9. CASE \/ Expire \/ Acknowledge \/ UNCHANGED vars
           \/ (\E c \in COMMANDS : SendCommand(c)) \/ (\E p \in Parameter : SendParameter(p))
  <2>1. UNCHANGED <<ref, todo, put, full, data, down, lost, ring, take>>
    BY <1>9 DEF Expire, Acknowledge, SendCommand, SendParameter, vars, callback, guest, host
  <2>2. Pending' = Pending BY <2>1, PendingStill
  <2>3. Out' = Out /\ Rest' = Rest BY <2>1 DEF Out, Rest
  <2> QED BY <1>3, <2>1, <2>2, <2>3, <1>00, KnownSame
\* A reply overtakes the bytes of the keys and says nothing of them.
<1>10. CASE KeyboardCallback
  <2>1. take = "idle" /\ UNCHANGED <<ref, todo, put, down, lost, ring>>
    BY <1>10, CallbackCases DEF host, guest
  <2>2. take' \in {"idle", "loaded"} BY <1>10, <2>1, CallbackCases DEF callback
  <2>3. Count' = Count BY <2>1, <2>2 DEF Count, ring
  <2>4. Pending' = Pending BY <1>0, <2>1, <2>3, PendingSame DEF ring
  <2>5. Rest' = Rest BY <2>1 DEF Rest
  <2>6. k \in Known <=> k \in Held BY <1>00, <2>1
  <2>7. CASE UNCHANGED <<full, data, callback>>
    <3>1. Out' = Out BY <2>7 DEF Out, callback
    <3> QED BY <1>3, <2>1, <2>4, <2>5, <2>6, <3>1, KnownSame
  <2>8. CASE ~ full /\ ctr # << >> /\ full' = TRUE /\ data' = Head(ctr) /\ UNCHANGED callback
    <3>1. Out = << >> /\ Out' = <<data'>> BY <2>1, <2>8 DEF Out, callback
    <3>2. data' \in Reply BY <1>0, <2>8, TailFacts DEF Types
    <3>3. Noted(down, data') = down BY <3>2 DEF Noted, IsReply
    <3>4. Told(down, <<data'>>) = down /\ Told(down, << >>) = down
      <4>1. data' \in Sent BY <3>2 DEF Sent
      <4> QED BY <1>1, <3>3, <4>1, ToldOne, ToldEmpty
    <3>5. Known' = Known BY <1>2, <2>1, <2>4, <2>5, <3>1, <3>4 DEF Known
    <3> QED BY <1>3, <2>1, <2>6, <3>5
  <2>9. CASE ~ full /\ take' = "loaded"
    <3>1. Out = << >> /\ Out' = << >> BY <2>9 DEF Out
    <3> QED BY <1>3, <2>1, <2>4, <2>5, <2>6, <3>1, KnownSame
  <2> QED BY <1>10, <2>7, <2>8, <2>9, CallbackCases
<1>11. CASE TakeCount
  <2>1. /\ take = "loaded" /\ take' = "counted" /\ buffers' = taken - 1
        /\ UNCHANGED <<buf, bufpos, ref, todo, put, down, lost>>
    BY <1>11 DEF TakeCount, host, guest
  <2>2. taken = buffers /\ buffers \in 0 .. BUF BY <2>1 DEF RingInv
  <2>3. BUF \in Nat BY KeyboardAssumption
  <2>4. Count' = Count BY <2>1, <2>2, <2>3 DEF Count
  <2>5. Pending' = Pending BY <1>0, <2>1, <2>4, PendingSame
  <2>6. Out' = Out /\ Rest' = Rest BY <2>1 DEF Out, Rest
  <2> QED BY <1>3, <2>1, <2>5, <2>6, <1>00, KnownSame
\* The byte moves from the ring to the data register.
<1>12. CASE TakeByte
  <2>1. take = "counted" /\ take' = "idle" /\ UNCHANGED <<full, ref, todo, put, down, lost>> /\ full
    BY <1>0, <1>12 DEF TakeByte, host, guest, ReadInv
  <2>2. Pending # << >> /\ data' = Head(Pending) /\ Pending' = Tail(Pending)
    BY <1>0, <1>12, StepTake DEF Queue!Take
  <2>3. Out = << >> /\ Out' = <<data'>> /\ Rest' = Rest BY <2>1 DEF Out, Rest
  <2>4. Pending = <<data'>> \o Tail(Pending) BY <1>1, <2>2
  <2>5. data' \in Sent /\ Tail(Pending) \in Seq(Sent) /\ <<data'>> \in Seq(Sent)
    BY <1>1, <2>2, TailFacts
  <2>6. Told(down, << >>) = down BY <1>1, ToldEmpty
  <2>7. Told(down, <<data'>> \o Tail(Pending)) = Told(Told(down, <<data'>>), Tail(Pending))
    BY <1>1, <2>5, ToldConcat
  <2>8. Known = Told(Told(down, Pending), Rest) BY <2>3, <2>6 DEF Known
  <2>9. Known' = Told(Told(Told(down, <<data'>>), Tail(Pending)), Rest)
    BY <1>2, <2>1, <2>2, <2>3
  <2>10. Told(down, Pending) = Told(Told(down, <<data'>>), Tail(Pending)) BY <2>4, <2>7
  <2>11. Known' = Known BY <2>8, <2>9, <2>10
  <2> QED BY <1>3, <1>00, <2>1, <2>11
\* The byte moves from the register into the guest's table.
<1>13. CASE KeyboardI41
  <2>1. /\ ~ called /\ servicing /\ full' = FALSE /\ down' = Noted(down, data)
        /\ UNCHANGED <<ref, todo, put, ring, data, lost, take>>
    BY <1>13 DEF KeyboardI41, GuestTurn, AfterRead, host, callback
  <2>2. take = "idle" /\ (full \/ stale) BY <1>0, <2>1 DEF TakeInv, ReadInv, ByteIsAnnounced
  <2>3. Out' = << >> /\ Rest' = Rest BY <2>1, <2>2 DEF Out, Rest
  <2>4. Pending' = Pending BY <2>1, PendingStill
  <2>5. data \in Sent BY <1>0 DEF Types, Sent
  <2>6. Told(down, <<data>>) = Noted(down, data) /\ Noted(down, data) \in SUBSET KEY
    BY <1>1, <2>5, ToldOne
  <2>7. Told(Noted(down, data), << >>) = Noted(down, data) BY <2>6, ToldEmpty
  <2>8. k \in Known <=> k \in Held BY <1>00, <2>1
  <2>9. Known' = Told(Told(Noted(down, data), Pending), Rest) BY <1>2, <2>1, <2>3, <2>4, <2>7
  <2>10. CASE full
    <3>1. Out = <<data>> BY <2>2, <2>10 DEF Out
    <3>2. Known' = Known BY <2>6, <2>9, <3>1 DEF Known
    <3> QED BY <1>3, <2>1, <2>8, <3>2
  \* It was dropped by a reset and is read again.
  <2>11. CASE ~ full
    <3>1. data \in Byte => data.key \in lost BY <2>2, <2>11 DEF ReadInv
    <3>2. Out = << >> BY <2>11 DEF Out
    <3>3. Told(down, << >>) = down BY <1>1, ToldEmpty
    <3>4. k \in Noted(down, data) <=> k \in down
      <4>1. CASE data \in Byte
        <5>1. k # data.key BY <2>1, <3>1, <4>1
        <5> QED BY <5>1 DEF Noted
      <4>2. CASE data \notin Byte
        <5>1. data = NoByte \/ IsReply(data) BY <2>5, <4>2 DEF Sent, IsReply
        <5> QED BY <5>1 DEF Noted
      <4> QED BY <4>1, <4>2
    <3>5. k \in Told(Noted(down, data), Pending) <=> k \in Told(down, Pending) BY <3>4, ToldAgree
    <3> DEFINE t == Told(Noted(down, data), Pending)  u == Told(down, Pending)
    <3>6. Known = Told(u, Rest) /\ Known' = Told(t, Rest) BY <2>9, <3>2, <3>3 DEF Known
    <3> HIDE DEF t, u
    <3>7. k \in t <=> k \in u BY <3>5 DEF t, u
    <3>8. k \in Told(t, Rest) <=> k \in Told(u, Rest) BY <3>7, ToldAgree
    <3> QED BY <1>3, <2>1, <2>8, <3>6, <3>8
  <2> QED BY <2>10, <2>11
<1>14. CASE KeyboardResetsignal
  <2>1. /\ ~ called /\ HostIdle /\ full' = FALSE /\ down' = {}
        /\ UNCHANGED <<ref, todo, put, bufpos, take>> /\ buffers' = Len(Resent)
    BY <1>0, <1>14, Alone DEF KeyboardResetsignal, GuestTurn, host, callback
  <2>2. take' = "idle" BY <1>0, <2>1 DEF TakeInv
  <2>3. Out' = << >> /\ Rest' = << >> BY <2>1 DEF Out, Rest, HostIdle
  <2>4. Pending' = Resent
    <3>1. Len(Resent) \in Nat /\ Resent \in Seq(Byte) BY ResentFacts
    <3>2. Count' = Len(Resent) BY <2>1, <2>2, <3>1 DEF Count
    <3>3. /\ Len(Pending') = Len(Resent) /\ Pending' \in Seq(Sent) /\ Resent \in Seq(Sent)
          /\ \A i \in 1 .. Len(Resent) : Pending'[i] = buf'[Place(i - 1)']
      BY <1>0, <3>1, <3>2, PendingNext, SentTypes
    <3>4. \A i : Place(i - 1)' = Place(i - 1) BY <2>1 DEF Place
    <3>5. \A i \in 1 .. Len(Resent) : Pending'[i] = Resent[i] BY <1>0, <1>14, <3>3, <3>4, ResetRing
    <3> QED BY <3>3, <3>5, SeqEqual
  <2>5. Told({}, << >>) = {} BY ToldEmpty
  <2>6. Told(Held, << >>) = Held
    <3>1. Held \in SUBSET KEY BY DEF Held
    <3> QED BY <3>1, ToldEmpty
  <2> QED BY <1>2, <1>3, <2>1, <2>3, <2>4, <2>5, <2>6, ResetTells
<1> QED BY <1>4, <1>5, <1>6, <1>7, <1>8, <1>9, <1>10, <1>11, <1>12, <1>13, <1>14
        DEF Next, Send, Callback, Guest

LEMMA InitKnown == Init => KnownInv
<1> SUFFICES ASSUME Init PROVE Known = Held BY DEF KnownInv, Known, Told
<1>1. Out = << >> /\ Rest = << >> /\ down = {} BY DEF Init, Out, Rest
<1>2. Pending = << >> BY InitQueue
<1>3. Held = {} BY DEF Init, Held
<1>4. Told({}, << >>) = {} BY ToldEmpty
<1> QED BY <1>1, <1>2, <1>3, <1>4 DEF Known

LEMMA InitTodo == Init => TodoInv
<1> SUFFICES ASSUME Init PROVE TodoInv OBVIOUS
<1>1. DOMAIN << >> = {} OBVIOUS
<1> QED BY <1>1 DEF Init, TodoInv, Said

\* Once the guest has read what is on its way it knows of each key whether it
\* is held, unless its last byte was refused by a full ring, or dropped by a
\* reset and read all the same; for any keys, owners and commands and a ring of
\* any size, if the host's part runs between two frames: keystat_down,
\* keystat_up, keystat_allrelease, keystat_resendstat, keyboard_send,
\* keyboard_callback and keyboard_i41.
THEOREM GuestKnowsKeys == ASSUME ~ THREADED PROVE Spec => []HeldKeysAreKnown
<1>1. Init => TodoInv BY InitTodo
<1>2. Init => KnownInv BY InitKnown
<1>3. CommonInv /\ CommonInv' /\ RingInv /\ TodoInv /\ [Next]_vars => TodoInv' BY NextTodo
<1>4. /\ CommonInv /\ CommonInv' /\ RingInv /\ RingInv' /\ ReadInv /\ TodoInv /\ KnownInv
      /\ [Next]_vars
      => KnownInv'
  BY NextKnown
<1>5. CommonInv /\ RingInv /\ KnownInv => HeldKeysAreKnown BY KnownIs DEF KnownInv
<1> QED BY <1>1, <1>2, <1>3, <1>4, <1>5, ReadInvariance, PTL DEF Spec
=============================================================================
