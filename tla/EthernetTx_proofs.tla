------------------------- MODULE EthernetTx_proofs -------------------------
(***************************************************************************)
(* Proof, for every payload, size and number of frames, that streaming a  *)
(* BasicEthernetPayload through EthernetTxImpl::send puts the k-th slice  *)
(* of the vector in the k-th frame (FramesCarryPayload).                  *)
(***************************************************************************)
EXTENDS EthernetTx, SequenceTheorems, TLAPS

(* The bytes of the vector the first Len(frames) frames have consumed.  *)
Consumed == IF Len(frames) * size < Len(payload)
              THEN Len(frames) * size
              ELSE Len(payload)

(* FramesCarryPayload is not inductive by itself: the next frame starts  *)
(* at the offset, so the offset must be where the closed form says the   *)
(* next slice begins.                                                    *)
IInv ==
    /\ TypeOK
    /\ offset = Consumed
    /\ FramesCarryPayload

-----------------------------------------------------------------------------
(* A payload vector is a sequence of bytes. *)
LEMMA PayloadsAreSeqs == Payloads \subseteq Seq(Bytes)
BY SeqDef, EthernetAssumption DEF Payloads

(* One frame built at offset off of p into a region of sz bytes: the     *)
(* region has sz bytes, byte j is p[off + j] while that exists and Junk   *)
(* after, and build moves the offset to min(off + sz, Len(p)).            *)
LEMMA RegionContent ==
    ASSUME NEW p \in Seq(Bytes), NEW off \in 0 .. Len(p), NEW sz \in Nat
    PROVE  /\ Region(Build(p, off, sz), sz) \in Seq(Bytes \cup {Junk})
           /\ Len(Region(Build(p, off, sz), sz)) = sz
           /\ \A j \in 1 .. sz :
                 Region(Build(p, off, sz), sz)[j] =
                    IF off + j <= Len(p) THEN p[off + j] ELSE Junk
           /\ BuildEnd(p, off, sz) \in 0 .. Len(p)
           /\ BuildEnd(p, off, sz) =
                 IF off + sz < Len(p) THEN off + sz ELSE Len(p)
<1> DEFINE e == BuildEnd(p, off, sz)
           c == Build(p, off, sz)
           pad == [i \in 1 .. (sz - Len(c)) |-> Junk]
<1>1. e \in off .. Len(p) /\ e - off <= sz
  BY DEF BuildEnd
<1>2. /\ c \in Seq(Bytes)
      /\ Len(c) = e - off
      /\ \A i \in 1 .. e - off : c[i] = p[off + i]
  <2>1. \A i \in (off + 1) .. e : p[i] \in Bytes
    BY <1>1, ElementOfSeq
  <2>2. QED
    BY <1>1, <2>1, SubSeqProperties DEF Build
<1>3. pad \in Seq(Bytes \cup {Junk}) /\ Len(pad) = sz - Len(c)
  <2>1. sz - Len(c) \in Nat
    BY <1>1, <1>2
  <2>2. pad \in Seq(Bytes \cup {Junk})
    BY <2>1, IsASeq
  <2>3. QED
    BY <2>1, <2>2, LenProperties
<1>4. c \in Seq(Bytes \cup {Junk})
  BY <1>2, SeqMonotonic
<1>5. /\ c \o pad \in Seq(Bytes \cup {Junk})
      /\ Len(c \o pad) = sz
      /\ \A i \in 1 .. sz :
            (c \o pad)[i] = IF i <= Len(c) THEN c[i] ELSE pad[i - Len(c)]
  <2>1. /\ c \o pad \in Seq(Bytes \cup {Junk})
        /\ Len(c \o pad) = Len(c) + Len(pad)
        /\ \A i \in 1 .. Len(c) + Len(pad) :
              (c \o pad)[i] = IF i <= Len(c) THEN c[i] ELSE pad[i - Len(c)]
    BY <1>3, <1>4, ConcatProperties
  <2>2. Len(c) + Len(pad) = sz
    BY <1>1, <1>2, <1>3
  <2>3. QED
    BY <2>1, <2>2
<1>6. \A j \in 1 .. sz :
         (c \o pad)[j] = IF off + j <= Len(p) THEN p[off + j] ELSE Junk
  <2> TAKE j \in 1 .. sz
  <2>1. CASE off + j <= Len(p)
    <3>1. j <= e - off
      BY <2>1, <1>1 DEF BuildEnd
    <3>2. QED
      BY <2>1, <3>1, <1>2, <1>5
  <2>2. CASE ~(off + j <= Len(p))
    <3>1. ~(j <= e - off) /\ j - Len(c) \in 1 .. (sz - Len(c))
      BY <2>2, <1>1, <1>2
    <3>2. QED
      BY <2>2, <3>1, <1>5
  <2>3. QED
    BY <2>1, <2>2
<1>7. Region(c, sz) = c \o pad
  BY DEF Region
<1>8. QED
  <2>1. BuildEnd(p, off, sz) \in 0 .. Len(p)
    BY <1>1
  <2>2. BuildEnd(p, off, sz) = IF off + sz < Len(p) THEN off + sz ELSE Len(p)
    BY DEF BuildEnd
  <2>3. QED
    BY <1>5, <1>6, <1>7, <2>1, <2>2

-----------------------------------------------------------------------------
LEMMA IInvInit == Init => IInv
<1> SUFFICES ASSUME Init PROVE IInv
  OBVIOUS
<1>1. payload \in Seq(Bytes)
  BY PayloadsAreSeqs DEF Init
<1>2. Len(frames) = 0 /\ frames \in Seq(Seq(Bytes \cup {Junk}))
  BY EmptySeq DEF Init
<1>3. size \in Nat
  BY EthernetAssumption DEF Init
<1>4. QED
  BY <1>1, <1>2, <1>3, LenProperties, EthernetAssumption
  DEF Init, IInv, TypeOK, Consumed, FramesCarryPayload

LEMMA IInvNext == IInv /\ [Next]_vars => IInv'
<1> SUFFICES ASSUME IInv, [Next]_vars PROVE IInv'
  OBVIOUS
<1>0. /\ payload \in Seq(Bytes)
      /\ size \in Nat
      /\ frames \in Seq(Seq(Bytes \cup {Junk}))
      /\ Len(frames) \in Nat
      /\ offset \in 0 .. Len(payload)
  BY PayloadsAreSeqs, EthernetAssumption, LenProperties DEF IInv, TypeOK
<1>1. CASE FillFrame
  <2> DEFINE n == Len(frames)
             r == Region(Build(payload, offset, size), size)
  <2>1. /\ r \in Seq(Bytes \cup {Junk})
        /\ Len(r) = size
        /\ \A j \in 1 .. size :
              r[j] = IF offset + j <= Len(payload)
                       THEN payload[offset + j] ELSE Junk
        /\ offset' \in 0 .. Len(payload)
        /\ offset' = IF offset + size < Len(payload)
                       THEN offset + size ELSE Len(payload)
    BY <1>0, <1>1, RegionContent DEF FillFrame
  <2>2. /\ frames' \in Seq(Seq(Bytes \cup {Junk}))
        /\ Len(frames') = n + 1
        /\ \A k \in 1 .. n : frames'[k] = frames[k]
        /\ frames'[n + 1] = r
    BY <1>0, <1>1, <2>1, AppendProperties DEF FillFrame
  <2>3. (n + 1) * size = n * size + size /\ n * size \in Nat
    BY <1>0
  <2>4. TypeOK'
    <3>1. UNCHANGED <<payload, size>> /\ left' = left - 1 /\ left > 0
      BY <1>1 DEF FillFrame
    <3>2. \A k \in 1 .. Len(frames') : Len(frames'[k]) = size'
      <4> TAKE k \in 1 .. Len(frames')
      <4>1. CASE k \in 1 .. n
        BY <4>1, <3>1, <2>2 DEF IInv, TypeOK
      <4>2. CASE k = n + 1
        BY <4>2, <3>1, <2>1, <2>2
      <4>3. QED
        BY <4>1, <4>2, <2>2, <1>0
    <3>3. left' \in 0 .. MaxPackets
      BY <3>1, EthernetAssumption DEF IInv, TypeOK
    <3>4. payload' \in Payloads /\ size' \in Sizes
      BY <3>1 DEF IInv, TypeOK
    <3>5. QED
      BY <3>2, <3>3, <3>4, <3>1, <2>1, <2>2 DEF TypeOK
  <2>5. offset' = Consumed'
    <3>1. CASE n * size < Len(payload)
      BY <3>1, <2>1, <2>2, <2>3, <1>0, <1>1 DEF IInv, Consumed, FillFrame
    <3>2. CASE ~(n * size < Len(payload))
      BY <3>2, <2>1, <2>2, <2>3, <1>0, <1>1 DEF IInv, Consumed, FillFrame
    <3>3. QED
      BY <3>1, <3>2
  <2>6. FramesCarryPayload'
    <3> SUFFICES ASSUME NEW k \in 1 .. n + 1, NEW j \in 1 .. size
                 PROVE  frames'[k][j] =
                          IF (k - 1) * size + j <= Len(payload)
                            THEN payload[(k - 1) * size + j] ELSE Junk
      BY <2>2, <1>1 DEF FramesCarryPayload, FillFrame
    <3>1. CASE k \in 1 .. n
      BY <3>1, <2>2, <1>1 DEF IInv, FramesCarryPayload, FillFrame
    <3>2. CASE k = n + 1
      <4>1. (k - 1) * size + j = n * size + j
        BY <3>2, <1>0
      <4>2. CASE n * size < Len(payload)
        BY <4>1, <4>2, <3>2, <2>1, <2>2 DEF IInv, Consumed
      <4>3. CASE ~(n * size < Len(payload))
        BY <4>1, <4>3, <3>2, <2>1, <2>2, <1>0 DEF IInv, Consumed
      <4>4. QED
        BY <4>2, <4>3
    <3>3. QED
      BY <3>1, <3>2
  <2>7. QED
    BY <2>4, <2>5, <2>6 DEF IInv
<1>2. CASE UNCHANGED vars
  BY <1>2 DEF vars, IInv, TypeOK, Consumed, FramesCarryPayload
<1>3. QED
  BY <1>1, <1>2 DEF Next

(* Every frame EthernetTxImpl::send hands to the datalink carries, in its *)
(* payload region, the slice of the BasicEthernetPayload vector that its *)
(* position calls for, and Junk past the vector's end.                   *)
THEOREM FramesCorrect == Spec => []FramesCarryPayload
<1>1. Spec => []IInv
  BY IInvInit, IInvNext, PTL DEF Spec
<1>2. IInv => FramesCarryPayload
  BY DEF IInv
<1>3. QED
  BY <1>1, <1>2, PTL

(* Every reachable state of one EthernetTxImpl::send is well typed: the    *)
(* BasicEthernetPayload offset never runs past the vector, at most          *)
(* `packets` frames remain, and every frame build_and_send filled has a     *)
(* payload region of exactly `size` bytes, for all values of the constants. *)
THEOREM TypeCorrect == Spec => []TypeOK
<1>1. Spec => []IInv
  BY IInvInit, IInvNext, PTL DEF Spec
<1>2. IInv => TypeOK
  BY DEF IInv
<1>3. QED
  BY <1>1, <1>2, PTL
=============================================================================
