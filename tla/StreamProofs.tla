---------------------------- MODULE StreamProofs ----------------------------
(***************************************************************************)
(* Flow control of a stream (agent/sender.rs, agent/receiver.rs) for every *)
(* length of term, frame and window, however the network loses and         *)
(* reorders datagrams.                                                     *)
(***************************************************************************)
EXTENDS StreamTransfer, TLAPS

Images ==
    [active : BOOLEAN, active_term_id : Nat, expected_term_offset : 0 .. TermLength,
     consumption_term_id : Nat, consumption_term_offset : 0 .. TermLength]

\* The image counts the consumption in the active term.
ImageInv ==
    /\ image \in Images
    /\ image.consumption_term_id = image.active_term_id

\* Datagrams towards the receiver: a data frame ends within its term.
Framed ==
    {m \in Messages : m.type = "data" => OffsetOf(m.pos) + FrameLength <= TermLength}

\* Datagrams towards the sender: what a status message permits, the receiver
\* still permits.
Granted ==
    {m \in Messages :
       m.type = "sm" => image.active /\ m.pos + m.len <= Consumption + ReceiverWindow}

(***************************************************************************)
(* LimitGranted is not inductive alone: the limit grows by status messages *)
(* that are older than the image's state.  They permit no more than the    *)
(* image does now, because the consumption only advances, and that because *)
(* the image counts it in the active term and frames end within a term.    *)
(***************************************************************************)
StreamInv ==
    /\ pub_position \in Nat
    /\ sender \in [position : Nat, limit : Nat, needs_setup : BOOLEAN, send_free : Nat]
    /\ scheduled \subseteq Messages
    /\ forward \in Seq(Framed)
    /\ back \in Seq(Granted)
    /\ ImageInv
    /\ LimitGranted

-----------------------------------------------------------------------------
(* Arithmetic. *)

\* The lesser and the greater of two numbers.
LEMMA OfTwo ==
    ASSUME NEW a \in Int, NEW b \in Int
    PROVE  /\ Min({a, b}) = IF a <= b THEN a ELSE b
           /\ Max({a, b}) = IF a <= b THEN b ELSE a
BY DEF Min, Max

\* A number cut off at zero.
LEMMA CutOff ==
    ASSUME NEW a \in Int
    PROVE  Max({0, a}) \in Nat /\ (Max({0, a}) > 0 => Max({0, a}) = a)
<1>1. 0 \in Int  OBVIOUS
<1>2. Max({0, a}) = IF 0 <= a THEN a ELSE 0  BY <1>1, OfTwo
<1> QED  BY <1>2

\* A product with a positive number grows with the other factor.
LEMMA Product ==
    ASSUME NEW a \in Int, NEW b \in Int, NEW n \in Nat \ {0}, a < b
    PROVE  a * n \in Int /\ b * n \in Int /\ a * n + n <= b * n
<1>1. (b - a - 1) * n >= 0  BY SMT
<1>2. (b - a - 1) * n = b * n - a * n - n  BY SMT
<1>3. a * n \in Int /\ b * n \in Int  OBVIOUS
<1> QED  BY <1>1, <1>2, <1>3

\* Quotient and remainder.
LEMMA Division ==
    ASSUME NEW x \in Int, NEW n \in Nat \ {0}
    PROVE  /\ x \div n \in Int /\ x % n \in 0 .. n - 1
           /\ x = (x \div n) * n + (x % n)
           /\ x >= 0 => x \div n >= 0
BY SMT

\* They are the only ones.
LEMMA DivisionUnique ==
    ASSUME NEW q \in Int, NEW n \in Nat \ {0}, NEW r \in 0 .. n - 1, NEW x \in Int,
           x = q * n + r
    PROVE  x \div n = q /\ x % n = r
<1> DEFINE d == x \div n
           m == x % n
<1>1. d \in Int /\ m \in 0 .. n - 1 /\ x = d * n + m  BY Division
<1> HIDE DEF d, m
<1>2. ASSUME d < q PROVE FALSE
  <2>1. d * n + n <= q * n /\ d * n \in Int /\ q * n \in Int  BY <1>1, <1>2, Product
  <2> QED  BY <1>1, <2>1
<1>3. ASSUME q < d PROVE FALSE
  <2>1. q * n + n <= d * n /\ d * n \in Int /\ q * n \in Int  BY <1>1, <1>3, Product
  <2> QED  BY <1>1, <2>1
<1>4. d = q  BY <1>1, <1>2, <1>3
<1>5. q * n \in Int  OBVIOUS
<1>6. m = r  BY <1>1, <1>4, <1>5
<1> QED  BY <1>4, <1>6 DEF d, m

\* A position is its term and its offset.
LEMMA Split ==
    ASSUME NEW p \in Nat
    PROVE  /\ TermOf(p) \in Nat /\ OffsetOf(p) \in 0 .. TermLength - 1
           /\ p = TermOf(p) * TermLength + OffsetOf(p)
BY TermLengthAssumption, SMT DEF TermOf, OffsetOf

\* A position in the same term has the same distance in offsets.
LEMMA OffsetAhead ==
    ASSUME NEW p \in Nat, NEW k \in Nat, OffsetOf(p) + k < TermLength
    PROVE  OffsetOf(p + k) = OffsetOf(p) + k
<1> DEFINE t == TermOf(p)
           o == OffsetOf(p)
           q == p + k
           r == o + k
<1>1. t \in Nat /\ o \in 0 .. TermLength - 1 /\ p = t * TermLength + o  BY Split
<1>2. t \in Int /\ q \in Int  BY <1>1
<1>3. r \in 0 .. TermLength - 1  BY <1>1, TermLengthAssumption
<1>4. q = t * TermLength + r
  <2> HIDE DEF t, o
  <2>1. t * TermLength \in Int  BY <1>1, TermLengthAssumption
  <2> QED  BY <1>1, <2>1
<1> HIDE DEF t, q, r
<1>5. q % TermLength = r  BY <1>2, <1>3, <1>4, DivisionUnique, TermLengthAssumption, SMTT(40)
<1> QED  BY <1>5 DEF q, r, OffsetOf

\* What lies in the place of a published position has a position itself.
LEMMA StoredIsNat ==
    ASSUME NEW p \in Nat, pub_position \in Nat, p < pub_position
    PROVE  StoredAt(p) \in Nat
<1> DEFINE last == TermOf(pub_position - 1)
           term == TermOf(p)
           back_by == (last - term) % PARTITION_COUNT
<1>0. pub_position - 1 \in Nat  OBVIOUS
<1>1. /\ last \in Nat /\ OffsetOf(pub_position - 1) \in 0 .. TermLength - 1
      /\ pub_position - 1 = last * TermLength + OffsetOf(pub_position - 1)
  BY <1>0, Split
<1>2. term \in Nat /\ OffsetOf(p) \in 0 .. TermLength - 1 /\ p = term * TermLength + OffsetOf(p)
  BY Split
<1> HIDE DEF last, term
<1>3. ASSUME last < term PROVE FALSE
  <2>1. /\ last * TermLength \in Int /\ term * TermLength \in Int
        /\ last * TermLength + TermLength <= term * TermLength
    BY <1>1, <1>2, <1>3, Product, TermLengthAssumption
  <2> QED  BY <1>1, <1>2, <2>1, TermLengthAssumption
<1>4. last - term \in Nat  BY <1>1, <1>2, <1>3
<1>5. last - back_by \in Nat  BY <1>1, <1>2, <1>4 DEF PARTITION_COUNT
<1> HIDE DEF back_by
<1>6. (last - back_by) * TermLength \in Nat  BY <1>5, TermLengthAssumption
<1>7. StoredAt(p) = (last - back_by) * TermLength + OffsetOf(p)
  BY DEF StoredAt, compute_position, last, term, back_by
<1> QED  BY <1>2, <1>6, <1>7, TermLengthAssumption

-----------------------------------------------------------------------------
(* Sequences. *)

\* The indices of a sequence.
LEMMA IndicesOf ==
    ASSUME NEW S, NEW s \in Seq(S)
    PROVE  Len(s) \in Nat /\ DOMAIN s = 1 .. Len(s)
OBVIOUS

\* The concatenation of two sequences of a set is one of that set.
LEMMA Concatenated ==
    ASSUME NEW S, NEW s \in Seq(S), NEW t \in Seq(S)
    PROVE  s \o t \in Seq(S)
OBVIOUS

\* A sequence of a set is one of every larger set.
LEMMA LargerSet ==
    ASSUME NEW S, NEW T, NEW s \in Seq(S), S \subseteq T
    PROVE  s \in Seq(T)
<1>1. Len(s) \in Nat /\ DOMAIN s = 1 .. Len(s)  BY IndicesOf
<1>2. \A i \in 1 .. Len(s) : s[i] \in T  BY <1>1
<1>3. s = [i \in 1 .. Len(s) |-> s[i]]  BY <1>1
<1> QED  BY <1>1, <1>2, <1>3

\* Without leaves a sequence of the other elements.
LEMMA Removed ==
    ASSUME NEW S, NEW s \in Seq(S), NEW i \in DOMAIN s
    PROVE  Without(s, i) \in Seq(S)
<1>1. Len(s) \in Nat /\ i \in 1 .. Len(s) /\ DOMAIN s = 1 .. Len(s)  BY IndicesOf
<1>2. SubSeq(s, 1, i - 1) \in Seq(S)  BY <1>1, SMT
<1>3. SubSeq(s, i + 1, Len(s)) \in Seq(S)  BY <1>1, SMT
<1> QED  BY <1>2, <1>3 DEF Without

\* A scan finds as many frames as fit below the limit and in the term.
LEMMA FramesFound ==
    ASSUME NEW from \in Nat, NEW limit \in Int
    PROVE  LET found == Len(Frames(from, limit))
           IN  /\ found \in Nat
               /\ Frames(from, limit) = [i \in 1 .. found |-> from + (i - 1) * FrameLength]
               /\ found > 0 => /\ found <= (limit + FrameLength - 1) \div FrameLength
                               /\ found <= (TermLength - OffsetOf(from)) \div FrameLength
<1> DEFINE fit    == (TermLength - OffsetOf(from)) \div FrameLength
           whole  == (limit + FrameLength - 1) \div FrameLength
           count  == Min({whole, fit})
           found  == IF count >= 0 THEN count ELSE 0
           frames == Frames(from, limit)
<1>0. FrameLength \in Nat \ {0}  BY StreamAssumption
<1>1. OffsetOf(from) \in 0 .. TermLength - 1  BY Split
<1>2. fit \in Int /\ whole \in Int  BY <1>0, <1>1, TermLengthAssumption
<1> HIDE DEF fit, whole
<1>3. count \in Int /\ count <= fit /\ count <= whole  BY <1>2, OfTwo
<1>4. frames = [i \in 1 .. count |-> from + (i - 1) * FrameLength]  BY DEF Frames, fit, whole
<1> HIDE DEF count, frames
<1>5. found \in Nat /\ 1 .. count = 1 .. found  BY <1>3
<1>6. found > 0 => found <= fit /\ found <= whole  BY <1>2, <1>3
<1> HIDE DEF found
<1>7. frames = [i \in 1 .. found |-> from + (i - 1) * FrameLength]  BY <1>4, <1>5
<1>8. frames \in Seq(Int)  BY <1>0, <1>5, <1>7
<1>9. DOMAIN frames = 1 .. found  BY <1>7
<1>10. Len(frames) \in Nat /\ 1 .. Len(frames) = 1 .. found  BY <1>8, <1>9, IndicesOf
<1>11. Len(frames) = found  BY <1>5, <1>10
<1> QED  BY <1>6, <1>7, <1>10, <1>11, Zenon DEF frames, fit, whole

\* The frames of a scan are sent as datagrams that end within the term.
FramesOf(s) == s \in Seq(Nat) /\ \A i \in 1 .. Len(s) : Data(s[i]) \in Framed

\* They end within the term because the scan does.
LEMMA FramesWithin ==
    ASSUME NEW from \in Nat, NEW limit \in Int
    PROVE  FramesOf(Frames(from, limit))
<1> DEFINE room   == TermLength - OffsetOf(from)
           fit    == room \div FrameLength
           frames == Frames(from, limit)
           found  == Len(frames)
<1>0. FrameLength \in Nat \ {0}  BY StreamAssumption
<1>1. OffsetOf(from) \in 0 .. TermLength - 1  BY Split
<1>2. room \in Nat  BY <1>1, TermLengthAssumption
<1>3. fit \in Int /\ room % FrameLength \in Nat /\ room = fit * FrameLength + (room % FrameLength)
  <2> HIDE DEF room
  <2> QED  BY <1>0, <1>2, Division
<1>4. /\ found \in Nat
      /\ frames = [i \in 1 .. found |-> from + (i - 1) * FrameLength]
      /\ found > 0 => found <= fit
  BY FramesFound
<1> HIDE DEF frames, found, fit, room
<1>5. ASSUME NEW i \in 1 .. found
      PROVE  frames[i] \in Nat /\ Data(frames[i]) \in Framed
  <2> DEFINE k == (i - 1) * FrameLength
  <2>1. i - 1 \in Nat /\ k \in Nat  BY <1>0, <1>4
  <2>2. i - 1 < fit  BY <1>3, <1>4
  <2>3. k + FrameLength <= room
    <3>1. k + FrameLength <= fit * FrameLength /\ fit * FrameLength \in Int
      BY <1>0, <1>3, <2>1, <2>2, Product
    <3> QED  BY <1>0, <1>2, <1>3, <2>1, <3>1
  <2>4. frames[i] = from + k  BY <1>4
  <2> HIDE DEF k
  <2>5. OffsetOf(from + k) = OffsetOf(from) + k
    BY <1>0, <1>1, <2>1, <2>3, OffsetAhead, TermLengthAssumption DEF room
  <2> QED
    BY <1>0, <1>1, <2>1, <2>3, <2>4, <2>5, TermLengthAssumption DEF Framed, Data, Messages, room
<1>6. frames \in Seq(Nat)  BY <1>4, <1>5
<1> QED  BY <1>5, <1>6 DEF FramesOf, found, frames

\* What finds a slot is sent, and it is all that was scanned when there are
\* slots enough.
LEMMA SentWithin ==
    ASSUME NEW frames, FramesOf(frames), NEW slots \in Nat
    PROVE  LET sent == SubSeq(frames, 1, Min({Len(frames), slots}))
           IN  /\ Len(sent) \in 0 .. slots
               /\ [i \in DOMAIN sent |-> Data(sent[i])] \in Seq(Framed)
               /\ Len(frames) <= slots => sent = frames
<1> DEFINE n    == Min({Len(frames), slots})
           sent == SubSeq(frames, 1, n)
<1>1. frames \in Seq(Nat) /\ Len(frames) \in Nat  BY DEF FramesOf
<1>2. /\ n \in Nat /\ n <= Len(frames) /\ n <= slots
      /\ Len(frames) <= slots => n = Len(frames)
  BY <1>1, OfTwo
<1> HIDE DEF n
<1>3. sent \in Seq(Nat) /\ Len(sent) = n /\ \A i \in 1 .. n : sent[i] = frames[i]
  BY <1>1, <1>2, SMT
<1>4. DOMAIN sent = 1 .. n  BY <1>3, IndicesOf
<1>5. Len(frames) <= slots => sent = frames  BY <1>1, <1>2, SMT
<1> HIDE DEF sent
<1>6. \A i \in 1 .. n : Data(sent[i]) \in Framed
  <2> TAKE i \in 1 .. n
  <2>1. i \in 1 .. Len(frames)  BY <1>1, <1>2
  <2>2. Data(frames[i]) \in Framed  BY <2>1 DEF FramesOf
  <2> QED  BY <1>3, <2>2
<1>7. [i \in DOMAIN sent |-> Data(sent[i])] \in Seq(Framed)  BY <1>2, <1>4, <1>6
<1>8. Len(sent) \in 0 .. slots  BY <1>2, <1>3
<1> QED  BY <1>5, <1>7, <1>8, Zenon DEF sent, n

-----------------------------------------------------------------------------
(***************************************************************************)
(* The invariant is inductive.                                             *)
(***************************************************************************)

\* The initial limit is one term, before there is an image.
LEMMA InitStream == Init => StreamInv
<1> SUFFICES ASSUME Init PROVE StreamInv  OBVIOUS
<1>1. sender \in [position : Nat, limit : Nat, needs_setup : BOOLEAN, send_free : Nat]
  BY StreamAssumption, TermLengthAssumption DEF Init
<1>2. ImageInv  BY TermLengthAssumption DEF Init, NoImage, ImageInv, Images
<1>3. LimitGranted
  <2>1. sender.limit = TermLength /\ ~image.active  BY DEF Init, NoImage
  <2>2. Max({TermLength, 0}) = TermLength  BY OfTwo, TermLengthAssumption
  <2> QED  BY <2>1, <2>2, TermLengthAssumption DEF LimitGranted
<1>4. pub_position \in Nat /\ scheduled \subseteq Messages
  BY DEF Init
<1>5. forward \in Seq(Framed) /\ back \in Seq(Granted)  BY DEF Init
<1> QED  BY <1>1, <1>2, <1>3, <1>4, <1>5 DEF StreamInv

\* A step that keeps the image and the limit keeps what was granted.
LEMMA SameGrant ==
    ASSUME StreamInv, image' = image, sender'.limit = sender.limit
    PROVE  LimitGranted' /\ Granted' = Granted /\ ImageInv'
<1>1. Consumption' = Consumption  BY DEF Consumption
<1>2. Granted' = Granted  BY <1>1 DEF Granted
<1>3. LimitGranted'  BY <1>1 DEF StreamInv, LimitGranted
<1> QED  BY <1>2, <1>3 DEF StreamInv, ImageInv

\* The consumption is a position.
LEMMA ConsumptionIsNat == ImageInv => Consumption \in Nat
<1> SUFFICES ASSUME ImageInv PROVE Consumption \in Nat  OBVIOUS
<1>1. image.consumption_term_id \in Nat /\ image.consumption_term_offset \in Nat
  BY TermLengthAssumption DEF ImageInv, Images
<1>2. image.consumption_term_id * TermLength \in Nat  BY <1>1, TermLengthAssumption
<1> QED  BY <1>1, <1>2 DEF Consumption, compute_position

\* The grant survives when an image begins, and when its consumption advances.
LEMMA GrantGrows ==
    ASSUME StreamInv, ImageInv', sender' = sender,
           image.active => image'.active /\ Consumption <= Consumption'
    PROVE  LimitGranted' /\ Granted \subseteq Granted'
<1>1. /\ Consumption \in Nat /\ Consumption' \in Nat /\ ReceiverWindow \in Nat
      /\ TermLength \in Nat
  <2>1. ImageInv => Consumption \in Nat  BY ConsumptionIsNat
  <2>2. (ImageInv => Consumption \in Nat)'  BY ConsumptionIsNat, PTL
  <2> QED  BY <2>1, <2>2, StreamAssumption, TermLengthAssumption DEF StreamInv
<1>2. Granted \subseteq Granted'
  <2> SUFFICES ASSUME NEW m \in Granted PROVE m \in Granted'  OBVIOUS
  <2>1. m \in Messages /\ m.pos + m.len \in Nat  BY DEF Granted, Messages
  <2>2. ASSUME m.type = "sm"
        PROVE  image'.active /\ m.pos + m.len <= Consumption' + ReceiverWindow
    BY <1>1, <2>1, <2>2 DEF Granted
  <2> QED  BY <2>1, <2>2 DEF Granted
<1>3. LimitGranted'
  <2> DEFINE c == Consumption
             d == Consumption'
             g == IF image.active THEN c + ReceiverWindow ELSE 0
             h == IF image'.active THEN d + ReceiverWindow ELSE 0
  <2>1. g \in Nat /\ h \in Nat /\ g <= h
    <3>1. c \in Nat /\ d \in Nat /\ (image.active => image'.active /\ c <= d)  BY <1>1
    <3> HIDE DEF c, d
    <3> QED  BY <1>1, <3>1
  <2>2. sender.limit <= Max({TermLength, g}) /\ sender.limit \in Nat
    BY DEF StreamInv, LimitGranted
  <2>3. LimitGranted' <=> sender.limit <= Max({TermLength, h})  BY DEF LimitGranted
  <2> HIDE DEF g, h
  <2>4. /\ Max({TermLength, g}) = IF TermLength <= g THEN g ELSE TermLength
        /\ Max({TermLength, h}) = IF TermLength <= h THEN h ELSE TermLength
    BY <1>1, <2>1, OfTwo, SMTT(40)
  <2>5. /\ Max({TermLength, g}) \in Nat /\ Max({TermLength, h}) \in Nat
        /\ Max({TermLength, g}) <= Max({TermLength, h})
    BY <1>1, <2>1, <2>4
  <2> QED  BY <2>2, <2>3, <2>5
<1> QED  BY <1>2, <1>3

\* The clamps of a scan.
LEMMA ScanClamped ==
    ASSUME sender.position \in Nat, sender.limit \in Nat, pub_position \in Nat,
           NEW slots \in Nat
    PROVE  /\ ScanLimit(slots) \in Nat
           /\ slots * Mtu \in Nat
           /\ ScanLimit(slots) <= slots * Mtu
           /\ ScanLimit(slots) > 0 => ScanLimit(slots) <= sender.limit - sender.position
<1> DEFINE w == WindowAvail
           d == pub_position - sender.position
           a == Min({w, d})
           b == Max({0, a})
           m == slots * Mtu
<1>1. w \in Int /\ d \in Int /\ w = sender.limit - sender.position  BY DEF WindowAvail
<1>2. m \in Nat  BY StreamAssumption
<1>3. ScanLimit(slots) = Min({b, m})  BY DEF ScanLimit
<1> HIDE DEF w, d, m
<1>4. a \in Int /\ a <= w  BY <1>1, OfTwo
<1> HIDE DEF a
<1>5. b \in Nat /\ (b > 0 => b <= w)  
  <2>1. b \in Nat /\ (b > 0 => b = a)  BY <1>4, CutOff
  <2> HIDE DEF b
  <2> QED  BY <1>1, <1>4, <2>1
<1> HIDE DEF b
<1>6. Min({b, m}) = IF b <= m THEN b ELSE m  BY <1>2, <1>5, OfTwo
<1> QED  BY <1>1, <1>2, <1>3, <1>5, <1>6 DEF m

\* What do_send does with the slots that are left for the frames.
LEMMA DoSendFrames ==
    ASSUME StreamInv, NEW setup_due \in BOOLEAN, NEW others \in Nat,
           DoSend(setup_due, others)
    PROVE  \E slots \in Nat :
             /\ forward' \in Seq(Framed)
             /\ sender' \in [position : Nat, limit : Nat, needs_setup : BOOLEAN,
                             send_free : Nat]
             /\ sender'.limit = sender.limit
             /\ sender'.position = sender.position + Len(ScannedFrames(slots)) * FrameLength
             /\ Len(ScannedFrames(slots)) <= slots => unsent' = unsent
<1> DEFINE setup  == IF sender.needs_setup /\ setup_due /\ sender.send_free > 0
                     THEN <<Setup(pub_position)>> ELSE <<>>
           slots  == Max({0, sender.send_free - Len(setup) - others})
           frames == ScannedFrames(slots)
           sent   == SubSeq(frames, 1, Min({Len(frames), slots}))
           datagrams == [i \in DOMAIN sent |-> Data(sent[i])]
<1>1. /\ forward' = forward \o setup \o datagrams
      /\ sender' = [sender EXCEPT !.position = @ + Len(frames) * FrameLength,
                                  !.send_free = slots - Len(sent)]
      /\ unsent' = unsent \cup (Range(frames) \ Range(sent))
  BY DEF DoSend
<1>2. Setup(pub_position) \in Framed  BY DEF Setup, Framed, Messages, StreamInv
<1>3. setup \in Seq(Framed) /\ Len(setup) \in 0 .. 1  BY <1>2
<1> HIDE DEF setup
<1>4. slots \in Nat
  <2>1. sender.send_free - Len(setup) - others \in Int  BY <1>3 DEF StreamInv
  <2> QED  BY <2>1, CutOff
<1> HIDE DEF slots
<1>5. sender.position \in Nat /\ sender.limit \in Nat /\ pub_position \in Nat
  BY DEF StreamInv
<1>6. ScanLimit(slots) \in Nat  BY <1>4, <1>5, ScanClamped
<1>7. FramesOf(frames)  BY <1>5, <1>6, FramesWithin DEF ScannedFrames
<1> HIDE DEF frames
<1>8. /\ Len(sent) \in 0 .. slots /\ datagrams \in Seq(Framed)
      /\ Len(frames) <= slots => sent = frames
  BY <1>4, <1>7, SentWithin, Zenon
<1> HIDE DEF sent, datagrams
<1>9. Len(frames) \in Nat  BY <1>7 DEF FramesOf
<1>10. Len(frames) * FrameLength \in Nat  BY <1>9, StreamAssumption
<1>11. forward' \in Seq(Framed)
  <2>1. forward \in Seq(Framed)  BY DEF StreamInv
  <2>2. forward \o setup \in Seq(Framed)  BY <1>3, <2>1, Concatenated
  <2> QED  BY <1>1, <1>8, <2>2, Concatenated
<1>12. /\ sender' \in [position : Nat, limit : Nat, needs_setup : BOOLEAN, send_free : Nat]
       /\ sender'.limit = sender.limit
       /\ sender'.position = sender.position + Len(frames) * FrameLength
  <2>1. slots - Len(sent) \in Nat  BY <1>4, <1>8
  <2>2. sender \in [position : Nat, limit : Nat, needs_setup : BOOLEAN, send_free : Nat]
    BY DEF StreamInv
  <2> DEFINE more == Len(frames) * FrameLength
             left == slots - Len(sent)
  <2>3. /\ sender' = [sender EXCEPT !.position = @ + more, !.send_free = left]
        /\ more \in Nat /\ left \in Nat
    BY <1>1, <1>10, <2>1
  <2> HIDE DEF more, left
  <2>4. /\ sender' \in [position : Nat, limit : Nat, needs_setup : BOOLEAN, send_free : Nat]
        /\ sender'.limit = sender.limit /\ sender'.position = sender.position + more
    <3> DEFINE ahead == [sender EXCEPT !.position = @ + more]
    <3>1. /\ ahead \in [position : Nat, limit : Nat, needs_setup : BOOLEAN, send_free : Nat]
          /\ ahead.limit = sender.limit /\ ahead.position = sender.position + more
      BY <2>2, <2>3
    <3>2. sender' = [ahead EXCEPT !.send_free = left]  BY <2>3, Zenon
    <3> HIDE DEF ahead
    <3> QED  BY <2>3, <3>1, <3>2
  <2> QED  BY <2>4 DEF more
<1>13. Len(frames) <= slots => unsent' = unsent  BY <1>1, <1>8
<1> QED  BY <1>4, <1>11, <1>12, <1>13 DEF frames

\* A status message permits what the image does.
LEMMA OnSmKeeps ==
    ASSUME StreamInv, NEW i \in DOMAIN back, OnSm(i)
    PROVE  StreamInv'
<1> DEFINE g == IF image.active THEN Consumption + ReceiverWindow ELSE 0
           l == LimitAfter(back[i])
           end == back[i].pos + back[i].len
<1>1. /\ back[i] \in Messages /\ back[i].type = "sm"
      /\ image.active /\ end <= Consumption + ReceiverWindow
  <2>1. back[i] \in Granted  BY DEF StreamInv
  <2> QED  BY <2>1 DEF Granted, OnSm
<1>2. end \in Nat  BY <1>1 DEF Messages
<1>3. Consumption \in Nat  BY ConsumptionIsNat DEF StreamInv
<1>4. g = Consumption + ReceiverWindow  BY <1>1
<1>5. /\ ReceiverWindow \in Nat /\ TermLength \in Nat /\ sender.limit \in Nat
      /\ sender.limit <= Max({TermLength, g})
  BY StreamAssumption, TermLengthAssumption DEF StreamInv, LimitGranted
<1>6. l = Max({sender.limit, end})  BY DEF LimitAfter
<1> HIDE DEF g, l, end
<1>7. g \in Nat  BY <1>3, <1>4, <1>5
<1>8. /\ Max({TermLength, g}) = IF TermLength <= g THEN g ELSE TermLength
      /\ Max({sender.limit, end}) = IF sender.limit <= end THEN end ELSE sender.limit
  <2> DEFINE held == sender.limit
  <2>1. held \in Int /\ end \in Int /\ TermLength \in Int /\ g \in Int  BY <1>2, <1>5, <1>7
  <2> HIDE DEF held
  <2>2. Max({held, end}) = IF held <= end THEN end ELSE held  BY <2>1, OfTwo, SMTT(40)
  <2>3. Max({TermLength, g}) = IF TermLength <= g THEN g ELSE TermLength  BY <2>1, OfTwo
  <2> QED  BY <2>2, <2>3 DEF held
<1>9. l \in Nat /\ l <= Max({TermLength, g})  BY <1>1, <1>2, <1>4, <1>5, <1>6, <1>7, <1>8
<1>10. /\ sender' \in [position : Nat, limit : Nat, needs_setup : BOOLEAN, send_free : Nat]
       /\ sender'.limit = l
  <2> DEFINE heard == [sender EXCEPT !.needs_setup = FALSE]
  <2>1. sender' = [heard EXCEPT !.limit = l]  BY Zenon DEF OnSm, l
  <2>2. heard \in [position : Nat, limit : Nat, needs_setup : BOOLEAN, send_free : Nat]
    BY Zenon DEF StreamInv
  <2> HIDE DEF heard
  <2> QED  BY <1>9, <2>1, <2>2
<1>11. /\ pub_position' = pub_position /\ scheduled' = scheduled
       /\ forward' = forward /\ image' = image
  BY DEF OnSm, handler
<1>12. Consumption' = Consumption /\ Framed' = Framed
  BY <1>11 DEF Consumption, Framed, Messages
<1>13. Granted' = Granted  BY <1>11, <1>12 DEF Granted
<1>14. LimitGranted'
  <2>1. LimitGranted' <=> sender'.limit <= Max({TermLength, g})
    BY <1>11, <1>12 DEF LimitGranted, g
  <2> QED  BY <1>9, <1>10, <2>1
<1>15. back' \in Seq(Granted')
  <2>1. back' = Without(back, i) /\ back \in Seq(Granted)  BY DEF OnSm, StreamInv
  <2> QED  BY <1>13, <2>1, Removed
<1>16. ImageInv'  BY <1>11 DEF StreamInv, ImageInv
<1> QED  BY <1>10, <1>11, <1>12, <1>14, <1>15, <1>16 DEF StreamInv

\* A NAK that is scheduled is a message.
LEMMA OnNakKeeps ==
    ASSUME StreamInv, NEW i \in DOMAIN back, OnNak(i)
    PROVE  StreamInv'
<1>1. /\ pub_position' = pub_position /\ sender' = sender
      /\ forward' = forward /\ image' = image
  BY DEF OnNak
<1>2. /\ LimitGranted' /\ Granted' = Granted /\ ImageInv'  BY <1>1, SameGrant
<1>3. back \in Seq(Granted) /\ back[i] \in Messages  BY DEF StreamInv, Granted
<1>4. back' \in Seq(Granted')  BY <1>2, <1>3, Removed DEF OnNak
<1>5. scheduled' \subseteq Messages  BY <1>3 DEF OnNak, StreamInv
<1>6. Framed' = Framed  BY DEF Framed, Messages
<1> QED  BY <1>1, <1>2, <1>4, <1>5, <1>6 DEF StreamInv

\* A retransmission sends frames that end within their term.
LEMMA RetransmitKeeps ==
    ASSUME StreamInv, NEW n \in scheduled, Retransmit(n)
    PROVE  StreamInv'
<1> DEFINE frames == IF InLog(n.pos) THEN Retransmitted(n) ELSE <<>>
           sent   == SubSeq(frames, 1, Min({Len(frames), NumSlots}))
           datagrams == [i \in DOMAIN sent |-> Data(sent[i])]
<1>1. /\ forward' = forward \o datagrams
      /\ sender' = [sender EXCEPT !.send_free = NumSlots - Len(sent)]
      /\ scheduled' = scheduled \ {n}
      /\ pub_position' = pub_position /\ back' = back /\ image' = image
  BY DEF Retransmit
<1>2. n.pos \in Nat /\ n.len \in Nat  BY DEF StreamInv, Messages
<1>3. FramesOf(frames)
  <2>1. CASE InLog(n.pos)
    <3> DEFINE from  == StoredAt(n.pos)
               limit == Min({n.len, Mtu, pub_position - from})
    <3>1. from \in Nat  BY <1>2, <2>1, StoredIsNat DEF InLog, StreamInv
    <3>2. limit \in Int
      <4>1. n.len \in Int /\ Mtu \in Int /\ pub_position - from \in Int
        <5>1. pub_position \in Nat /\ Mtu \in Nat  BY StreamAssumption DEF StreamInv
        <5> HIDE DEF from
        <5> QED  BY <1>2, <3>1, <5>1
      <4> QED  BY <4>1 DEF Min
    <3>3. frames = Frames(from, limit)  BY <2>1 DEF Retransmitted
    <3> HIDE DEF from, limit
    <3> QED  BY <3>1, <3>2, <3>3, FramesWithin
  <2>2. CASE ~InLog(n.pos)
    <3>1. frames = <<>>  BY <2>2
    <3> HIDE DEF frames
    <3> QED  BY <3>1 DEF FramesOf
  <2> QED  BY <2>1, <2>2
<1>4. NumSlots \in Nat  BY StreamAssumption
<1> HIDE DEF frames
<1>5. Len(sent) \in 0 .. NumSlots /\ datagrams \in Seq(Framed)
  BY <1>3, <1>4, SentWithin, Zenon
<1> HIDE DEF sent, datagrams
<1>6. forward' \in Seq(Framed)  BY <1>1, <1>5, Concatenated DEF StreamInv
<1>7. /\ sender' \in [position : Nat, limit : Nat, needs_setup : BOOLEAN, send_free : Nat]
      /\ sender'.limit = sender.limit
  <2>1. NumSlots - Len(sent) \in Nat  BY <1>4, <1>5
  <2> QED  BY <1>1, <2>1 DEF StreamInv
<1>8. LimitGranted' /\ Granted' = Granted /\ ImageInv'  BY <1>1, <1>7, SameGrant
<1>9. Framed' = Framed  BY DEF Framed, Messages
<1> QED  BY <1>1, <1>6, <1>7, <1>8, <1>9 DEF StreamInv

\* A rotated image is at the start of the later term.
LEMMA RotatedImage ==
    ASSUME ImageInv, NEW term \in Nat
    PROVE  LET img == Rotated(term)
           IN  /\ img \in Images /\ img.active = image.active
               /\ img.consumption_term_id = img.active_term_id
               /\ \/ img = image
                  \/ image.consumption_term_id < img.consumption_term_id
<1> DEFINE img == Rotated(term)
<1>1. image \in Images /\ image.active_term_id \in Nat  BY DEF ImageInv, Images
<1>2. CASE term <= image.active_term_id
  <2>1. img = image  BY <1>2 DEF Rotated
  <2> QED  BY <1>1, <2>1 DEF ImageInv
<1>3. CASE ~(term <= image.active_term_id)
  <2> DEFINE a == [image EXCEPT !.active_term_id = term]
             b == [a EXCEPT !.expected_term_offset = 0]
             c == [b EXCEPT !.consumption_term_id = term]
  <2>1. img = [c EXCEPT !.consumption_term_offset = 0]  BY <1>3, Zenon DEF Rotated
  <2>2. a \in Images /\ a.active = image.active /\ a.active_term_id = term
    BY <1>1 DEF Images
  <2> HIDE DEF a
  <2>3. b \in Images /\ b.active = image.active /\ b.active_term_id = term
    BY <2>2, TermLengthAssumption DEF Images
  <2> HIDE DEF b
  <2>4. /\ c \in Images /\ c.active = image.active
        /\ c.active_term_id = term /\ c.consumption_term_id = term
    BY <2>3 DEF Images
  <2> HIDE DEF c, img
  <2>5. /\ img \in Images /\ img.active = image.active
        /\ img.active_term_id = term /\ img.consumption_term_id = term
    BY <2>1, <2>4, TermLengthAssumption DEF Images
  <2>6. image.consumption_term_id < term  BY <1>1, <1>3 DEF ImageInv
  <2> QED  BY <2>5, <2>6 DEF img
<1> QED  BY <1>2, <1>3

\* The marks only advance.
LEMMA MarkedImage ==
    ASSUME NEW img \in Images, img.consumption_term_id = img.active_term_id,
           NEW term \in Nat, NEW end \in 0 .. TermLength
    PROVE  LET marked == Marked(img, term, end)
           IN  /\ marked \in Images /\ marked.active = img.active
               /\ marked.consumption_term_id = marked.active_term_id
               /\ marked.consumption_term_id = img.consumption_term_id
               /\ img.consumption_term_offset <= marked.consumption_term_offset
<1> DEFINE o == img.consumption_term_offset
           e == img.expected_term_offset
           consumed == IF term = img.consumption_term_id THEN Max({o, end}) ELSE o
           a == [img EXCEPT !.consumption_term_offset = consumed]
           expected == IF term = img.active_term_id THEN Max({e, end}) ELSE e
           marked == Marked(img, term, end)
<1>1. o \in 0 .. TermLength /\ e \in 0 .. TermLength /\ TermLength \in Nat
  BY TermLengthAssumption DEF Images
<1>2. consumed \in 0 .. TermLength /\ o <= consumed /\ expected \in 0 .. TermLength
  <2> HIDE DEF o, e
  <2>1. o \in Int /\ e \in Int /\ end \in Int  BY <1>1
  <2>2. Max({o, end}) = IF o <= end THEN end ELSE o  BY <2>1, OfTwo
  <2>3. Max({e, end}) = IF e <= end THEN end ELSE e  BY <2>1, OfTwo
  <2> QED  BY <1>1, <2>2, <2>3
<1>3. a.expected_term_offset = e  BY DEF Images
<1>4. marked = [a EXCEPT !.expected_term_offset = expected]
  BY <1>3, Zenon DEF Marked
<1> HIDE DEF consumed, expected
<1>5. /\ a \in Images /\ a.active = img.active
      /\ a.consumption_term_id = img.consumption_term_id
      /\ a.active_term_id = img.active_term_id
      /\ a.consumption_term_offset = consumed
  BY <1>2 DEF Images
<1> HIDE DEF a, marked
<1>6. /\ marked \in Images /\ marked.active = img.active
      /\ marked.consumption_term_id = img.consumption_term_id
      /\ marked.active_term_id = img.active_term_id
      /\ marked.consumption_term_offset = consumed
  BY <1>2, <1>4, <1>5 DEF Images
<1> QED  BY <1>2, <1>6 DEF marked

\* A later term, or a later offset in the term, is a later position.
LEMMA LaterPosition ==
    ASSUME NEW t \in Nat, NEW o \in 0 .. TermLength, NEW u \in Nat, NEW q \in 0 .. TermLength,
           t < u \/ (t = u /\ o <= q)
    PROVE  compute_position(t, o) <= compute_position(u, q)
<1>1. TermLength \in Nat \ {0} /\ t * TermLength \in Int /\ u * TermLength \in Int
  BY TermLengthAssumption
<1>2. CASE t < u
  <2>1. t * TermLength + TermLength <= u * TermLength  BY <1>1, <1>2, Product
  <2> QED  BY <1>1, <2>1 DEF compute_position
<1>3. CASE t = u /\ o <= q  BY <1>1, <1>3 DEF compute_position
<1> QED  BY <1>2, <1>3

\* A Setup begins an image, and no status message is older than the image.
LEMMA OnSetupKeeps ==
    ASSUME StreamInv, NEW i \in DOMAIN forward, OnSetup(i)
    PROVE  StreamInv'
<1>1. /\ pub_position' = pub_position /\ sender' = sender
      /\ scheduled' = scheduled /\ back' = back
  BY DEF OnSetup, handler
<1>2. forward \in Seq(Framed) /\ Framed' = Framed /\ forward[i] \in Messages
  BY DEF StreamInv, Framed, Messages
<1>3. forward' \in Seq(Framed)  BY <1>2, Removed DEF OnSetup
<1>4. ImageInv' /\ (image.active => image'.active /\ Consumption <= Consumption')
  <2>1. CASE image.active
    <3>1. image' = image  BY <2>1 DEF OnSetup
    <3>2. Consumption' = Consumption /\ Consumption \in Nat
      BY <3>1, ConsumptionIsNat DEF Consumption, StreamInv
    <3>3. ImageInv'  BY <3>1 DEF StreamInv, ImageInv
    <3>4. Consumption <= Consumption'  BY <3>2
    <3> QED  BY <2>1, <3>1, <3>3, <3>4
  <2>2. CASE ~image.active
    <3> DEFINE t == TermOf(forward[i].pos)
               o == OffsetOf(forward[i].pos)
    <3>1. forward[i].pos \in Nat  BY <1>2 DEF Messages
    <3>2. t \in Nat /\ o \in 0 .. TermLength
      <4>1. t \in Nat /\ o \in 0 .. TermLength - 1  BY <3>1, Split
      <4> HIDE DEF t, o
      <4> QED  BY <4>1, TermLengthAssumption
    <3>3. image' = [active |-> TRUE, active_term_id |-> t, expected_term_offset |-> o,
                    consumption_term_id |-> t, consumption_term_offset |-> o]
      BY <2>2 DEF OnSetup
    <3> HIDE DEF t, o
    <3> QED  BY <2>2, <3>2, <3>3 DEF ImageInv, Images
  <2> QED  BY <2>1, <2>2
<1>5. LimitGranted' /\ Granted \subseteq Granted'  BY <1>1, <1>4, GrantGrows
<1>6. back' \in Seq(Granted')
  <2>1. back \in Seq(Granted)  BY DEF StreamInv
  <2> QED  BY <1>1, <1>5, <2>1, LargerSet
<1> QED  BY <1>1, <1>2, <1>3, <1>4, <1>5, <1>6 DEF StreamInv

\* Data advances the consumption or leaves it.
LEMMA OnDataKeeps ==
    ASSUME StreamInv, NEW i \in DOMAIN forward, NEW nak_due \in BOOLEAN,
           OnData(i, nak_due)
    PROVE  StreamInv'
<1> DEFINE p       == forward[i].pos
           term    == TermOf(p)
           end     == OffsetOf(p) + FrameLength
           rotated == Rotated(term)
<1>1. /\ pub_position' = pub_position /\ sender' = sender /\ scheduled' = scheduled
  BY DEF OnData, handler
<1>2. /\ forward \in Seq(Framed) /\ Framed' = Framed
      /\ forward[i] \in Framed /\ forward[i].type = "data"
  BY DEF StreamInv, Framed, Messages, OnData
<1>3. forward' \in Seq(Framed)  BY <1>2, Removed DEF OnData
<1>4. p \in Nat /\ OffsetOf(p) + FrameLength <= TermLength
  BY <1>2 DEF Framed, Messages
<1>5. /\ term \in Nat /\ OffsetOf(p) \in Nat /\ end \in 0 .. TermLength
  <2>1. term \in Nat /\ OffsetOf(p) \in 0 .. TermLength - 1  BY <1>4, Split
  <2>2. FrameLength \in Nat  BY StreamAssumption
  <2> QED  BY <1>4, <2>1, <2>2, TermLengthAssumption
<1>6. ImageInv  BY DEF StreamInv
<1>7. ImageInv' /\ (image.active => image'.active /\ Consumption <= Consumption')
  <2>1. CASE ~image.active
    <3>1. image' = image  BY <2>1 DEF OnData
    <3> QED  BY <1>6, <2>1, <3>1 DEF ImageInv
  <2>2. CASE image.active
    <3> DEFINE marked == Marked(rotated, term, end)
    <3>1. image' = marked \/ image' = rotated  BY <2>2 DEF OnData
    <3>2. /\ rotated \in Images /\ rotated.active = image.active
          /\ rotated.consumption_term_id = rotated.active_term_id
          /\ rotated = image \/ image.consumption_term_id < rotated.consumption_term_id
      BY <1>5, <1>6, RotatedImage
    <3> HIDE DEF rotated, term, end
    <3>3. /\ marked \in Images /\ marked.active = rotated.active
          /\ marked.consumption_term_id = marked.active_term_id
          /\ marked.consumption_term_id = rotated.consumption_term_id
          /\ rotated.consumption_term_offset <= marked.consumption_term_offset
      BY <1>5, <3>2, MarkedImage
    <3> HIDE DEF marked
    <3>4. /\ image' \in Images /\ image'.active = image.active
          /\ image'.consumption_term_id = image'.active_term_id
          /\ image'.consumption_term_id = rotated.consumption_term_id
          /\ rotated.consumption_term_offset <= image'.consumption_term_offset
      <4>1. rotated.consumption_term_offset <= rotated.consumption_term_offset
        BY <3>2, TermLengthAssumption DEF Images
      <4> QED  BY <3>1, <3>2, <3>3, <4>1, Zenon
    <3>5. \/ image.consumption_term_id < image'.consumption_term_id
          \/ /\ image.consumption_term_id = image'.consumption_term_id
             /\ image.consumption_term_offset <= image'.consumption_term_offset
      BY <3>2, <3>4
    <3>6. /\ image.consumption_term_id \in Nat /\ image'.consumption_term_id \in Nat
          /\ image.consumption_term_offset \in 0 .. TermLength
          /\ image'.consumption_term_offset \in 0 .. TermLength
      BY <1>6, <3>4 DEF ImageInv, Images
    <3>7. Consumption <= Consumption'  BY <3>5, <3>6, LaterPosition DEF Consumption
    <3> QED  BY <2>2, <3>4, <3>7 DEF ImageInv
  <2> QED  BY <2>1, <2>2
<1>8. LimitGranted' /\ Granted \subseteq Granted'  BY <1>1, <1>7, GrantGrows
<1>9. back' \in Seq(Granted')
  <2> DEFINE from == compute_position(image.active_term_id, image.expected_term_offset)
             gap == Gap(p)
             nak == Nak(from, gap)
  <2>1. back \in Seq(Granted')
    <3>1. back \in Seq(Granted)  BY DEF StreamInv
    <3> QED  BY <1>8, <3>1, LargerSet
  <2>2. back' = back \/ (back' = Append(back, nak) /\ gap > 0)  BY DEF OnData
  <2>3. ASSUME gap > 0 PROVE nak \in Granted'
    <3>1. image.active_term_id \in Nat /\ image.expected_term_offset \in Nat
      BY <1>6, TermLengthAssumption DEF ImageInv, Images
    <3>2. from \in Nat
      <4>1. image.active_term_id * TermLength \in Nat  BY <3>1, TermLengthAssumption
      <4> QED  BY <3>1, <4>1 DEF compute_position
    <3>3. gap \in Int  BY <1>5, <3>1 DEF Gap
    <3> HIDE DEF from, gap
    <3>4. gap \in Nat  BY <2>3, <3>3
    <3> QED  BY <3>2, <3>4 DEF Granted, Nak, Messages
  <2> HIDE DEF nak, gap
  <2> QED  BY <2>1, <2>2, <2>3
<1> QED  BY <1>1, <1>2, <1>3, <1>7, <1>8, <1>9 DEF StreamInv

\* A status message permits what the image does when it is sent.
LEMMA SendSmKeeps == ASSUME StreamInv, SendSm PROVE StreamInv'
<1> DEFINE c == Consumption
<1>1. /\ pub_position' = pub_position /\ sender' = sender /\ scheduled' = scheduled
      /\ forward' = forward /\ image' = image /\ back' = Append(back, Sm(c)) /\ image.active
  BY DEF SendSm, handler
<1>2. LimitGranted' /\ Granted' = Granted /\ ImageInv'  BY <1>1, SameGrant
<1>3. c \in Nat /\ ReceiverWindow \in Nat  BY ConsumptionIsNat, StreamAssumption DEF StreamInv
<1>4. Sm(c) \in Granted
  <2>1. Granted = {m \in Messages :
                     m.type = "sm" => image.active /\ m.pos + m.len <= c + ReceiverWindow}
    BY DEF Granted
  <2> HIDE DEF c
  <2> QED  BY <1>1, <1>3, <2>1 DEF Sm, Messages
<1> HIDE DEF c
<1>5. back' \in Seq(Granted')  BY <1>1, <1>2, <1>4 DEF StreamInv
<1>6. Framed' = Framed  BY DEF Framed, Messages
<1> QED  BY <1>1, <1>2, <1>5, <1>6 DEF StreamInv

\* The network takes datagrams away.
LEMMA LoseKeeps == ASSUME StreamInv, Lose PROVE StreamInv'
<1>1. /\ pub_position' = pub_position /\ sender' = sender /\ scheduled' = scheduled
      /\ image' = image
  BY DEF Lose, handler
<1>2. LimitGranted' /\ Granted' = Granted /\ ImageInv'  BY <1>1, SameGrant
<1>3. Framed' = Framed  BY DEF Framed, Messages
<1>4. forward \in Seq(Framed) /\ back \in Seq(Granted)  BY DEF StreamInv
<1>5. forward' \in Seq(Framed) /\ back' \in Seq(Granted)
  <2>1. CASE (\E i \in DOMAIN forward : forward' = Without(forward, i)) /\ back' = back
    BY <1>4, <2>1, Removed
  <2>2. CASE (\E i \in DOMAIN back : back' = Without(back, i)) /\ forward' = forward
    BY <1>4, <2>2, Removed
  <2> QED  BY <2>1, <2>2 DEF Lose
<1> QED  BY <1>1, <1>2, <1>3, <1>5 DEF StreamInv

\* The other steps touch neither the limit nor the image.
LEMMA SenderKeeps ==
    ASSUME StreamInv, pub_position' \in Nat, image' = image,
           scheduled' = scheduled, back' = back, forward' \in Seq(Framed),
           sender' \in [position : Nat, limit : Nat, needs_setup : BOOLEAN, send_free : Nat],
           sender'.limit = sender.limit
    PROVE  StreamInv'
<1>1. LimitGranted' /\ Granted' = Granted /\ ImageInv'  BY SameGrant
<1>2. Framed' = Framed  BY DEF Framed, Messages
<1> QED  BY <1>1, <1>2 DEF StreamInv

\* Every step keeps the invariant.
LEMMA NextStream == StreamInv /\ [Next]_vars => StreamInv'
<1> SUFFICES ASSUME StreamInv, [Next]_vars PROVE StreamInv'  OBVIOUS
<1>0. /\ pub_position \in Nat /\ forward \in Seq(Framed)
      /\ sender \in [position : Nat, limit : Nat, needs_setup : BOOLEAN, send_free : Nat]
  BY DEF StreamInv
<1>1. CASE Offer
  <2>1. pub_position + FrameLength \in Nat  BY <1>0, StreamAssumption, SMTT(40)
  <2> QED  BY <1>0, <1>1, <2>1, SenderKeeps DEF Offer, handler
<1>2. ASSUME NEW setup_due \in BOOLEAN, NEW others \in 0 .. MaxHousekeeping,
             DoSend(setup_due, others)
      PROVE  StreamInv'
  <2>1. others \in Nat  BY StreamAssumption
  <2>2. /\ forward' \in Seq(Framed)
        /\ sender' \in [position : Nat, limit : Nat, needs_setup : BOOLEAN, send_free : Nat]
        /\ sender'.limit = sender.limit
    BY <1>2, <2>1, DoSendFrames
  <2>3. /\ pub_position' = pub_position /\ scheduled' = scheduled /\ back' = back
        /\ image' = image
    BY <1>2 DEF DoSend, handler
  <2> QED  BY <1>0, <2>2, <2>3, SenderKeeps
<1>3. CASE Reap
  <2>1. NumSlots \in Nat  BY StreamAssumption
  <2>2. /\ sender' \in [position : Nat, limit : Nat, needs_setup : BOOLEAN, send_free : Nat]
        /\ sender'.limit = sender.limit
    BY <1>0, <1>3, <2>1 DEF Reap
  <2>3. /\ pub_position' = pub_position /\ scheduled' = scheduled /\ back' = back
        /\ image' = image /\ forward' = forward
    BY <1>3 DEF Reap, handler
  <2> QED  BY <1>0, <2>2, <2>3, SenderKeeps
<1>4. ASSUME NEW p \in lingering, LingerOver(p) PROVE StreamInv'
  BY <1>0, <1>4, SenderKeeps DEF LingerOver
<1>5. CASE UNCHANGED vars
  BY <1>0, <1>5, SenderKeeps DEF vars
<1>6. CASE Sender
  BY <1>2, <1>3, <1>4, <1>6, OnSmKeeps, OnNakKeeps, RetransmitKeeps DEF Sender
<1>7. CASE Receiver
  BY <1>7, OnSetupKeeps, OnDataKeeps, SendSmKeeps DEF Receiver
<1>8. CASE Lose  BY <1>8, LoseKeeps
<1> QED  BY <1>1, <1>5, <1>6, <1>7, <1>8 DEF Next

(***************************************************************************)
(* Flow control: the sender's limit never exceeds what the receiver grants *)
(* at that moment, whichever status messages are lost, late or overtaken.  *)
(***************************************************************************)
THEOREM LimitNeverExceedsGrant == Spec => []LimitGranted
<1>1. StreamInv => LimitGranted  BY DEF StreamInv
<1> QED  BY <1>1, InitStream, NextStream, PTL DEF Spec

-----------------------------------------------------------------------------
(* What a scan takes. *)

\* A scan passes its limit by less than a frame, and takes nothing at limit 0.
LEMMA FoundBelow ==
    ASSUME NEW from \in Nat, NEW limit \in Nat
    PROVE  LET found == Len(Frames(from, limit))
           IN  /\ found \in Nat /\ found * FrameLength \in Nat
               /\ found * FrameLength < limit + FrameLength
               /\ limit = 0 => found = 0
<1> DEFINE found == Len(Frames(from, limit))
           top   == limit + FrameLength - 1
           whole == top \div FrameLength
<1>0. FrameLength \in Nat \ {0}  BY StreamAssumption
<1>1. found \in Nat /\ (found > 0 => found <= whole)  BY FramesFound
<1>2. top \in Nat  BY <1>0
<1>3. whole \in Int /\ top % FrameLength \in Nat /\ top = whole * FrameLength + (top % FrameLength)
  <2> HIDE DEF top
  <2> QED  BY <1>0, <1>2, Division
<1> HIDE DEF found, whole
<1>4. found * FrameLength \in Nat /\ whole * FrameLength \in Int  BY <1>0, <1>1, <1>3
<1>5. found * FrameLength <= top
  <2>1. CASE found = 0
    <3>1. found * FrameLength = 0  BY <1>0, <2>1
    <3> QED  BY <1>2, <3>1
  <2>2. CASE found > 0 /\ found = whole  BY <1>2, <1>3, <1>4, <2>2
  <2>3. CASE found > 0 /\ found < whole
    <3>1. found * FrameLength + FrameLength <= whole * FrameLength
      BY <1>0, <1>1, <1>3, <2>3, Product
    <3> QED  BY <1>0, <1>2, <1>3, <1>4, <3>1
  <2> QED  BY <1>1, <1>3, <2>1, <2>2, <2>3
<1>6. ASSUME limit = 0, found # 0 PROVE FALSE
  <2>1. 0 < found /\ 0 \in Int  BY <1>1, <1>6
  <2>2. 0 * FrameLength + FrameLength <= found * FrameLength
    BY <1>0, <1>1, <2>1, Product
  <2> QED  BY <1>0, <1>4, <1>5, <1>6, <2>2
<1>7. found * FrameLength < limit + FrameLength  BY <1>0, <1>4, <1>5
<1> QED  BY <1>1, <1>4, <1>6, <1>7 DEF found

\* A step of the sender other than do_send moves neither the position nor
\* what was left unsent, and no step takes the limit back.
LEMMA OtherSteps ==
    ASSUME StreamInv, [Next]_vars,
           ~ \E setup_due \in BOOLEAN, others \in 0 .. MaxHousekeeping :
               DoSend(setup_due, others)
    PROVE  /\ sender'.position = sender.position /\ sender.limit <= sender'.limit
           /\ unsent' = unsent
<1>0. /\ sender \in [position : Nat, limit : Nat, needs_setup : BOOLEAN, send_free : Nat]
      /\ sender.limit <= sender.limit
  BY DEF StreamInv
<1>1. ASSUME NEW i \in DOMAIN back, OnSm(i)
      PROVE  sender'.position = sender.position /\ sender.limit <= sender'.limit
  <2> DEFINE heard == [sender EXCEPT !.needs_setup = FALSE]
             held  == sender.limit
             end   == back[i].pos + back[i].len
             l     == LimitAfter(back[i])
  <2>1. back[i] \in Granted  BY DEF StreamInv
  <2>2. end \in Int /\ held \in Int  BY <1>0, <2>1 DEF Granted, Messages
  <2>3. l = Max({held, end})  BY DEF LimitAfter
  <2>4. sender' = [heard EXCEPT !.limit = l]  BY <1>1, Zenon DEF OnSm
  <2>5. heard \in [position : Nat, limit : Nat, needs_setup : BOOLEAN, send_free : Nat]
        /\ heard.position = sender.position
    BY <1>0, Zenon
  <2> HIDE DEF heard, held, end, l
  <2>6. held <= l  BY <2>2, <2>3, OfTwo
  <2>7. sender'.position = heard.position /\ sender'.limit = l  BY <2>4, <2>5
  <2> QED  BY <2>5, <2>6, <2>7 DEF held
<1>2. ASSUME NEW n \in scheduled, Retransmit(n)
      PROVE  sender'.position = sender.position /\ sender'.limit = sender.limit
  BY <1>0, <1>2 DEF Retransmit
<1>3. ASSUME Reap
      PROVE  sender'.position = sender.position /\ sender'.limit = sender.limit
  BY <1>0, <1>3 DEF Reap
<1>4. CASE Offer  BY <1>0, <1>4 DEF Offer
<1>5. CASE Lose  BY <1>0, <1>5, SMTT(40) DEF Lose
<1>6. CASE Receiver  BY <1>0, <1>6 DEF Receiver, OnData, OnSetup, SendSm
<1>7. CASE UNCHANGED vars  BY <1>0, <1>7 DEF vars
<1>8. CASE Sender
  <2>1. CASE Reap  BY <1>0, <1>3, <2>1, SMTT(40) DEF Reap
  <2>2. CASE \E i \in DOMAIN back : OnSm(i)  BY <1>1, <2>2, Zenon DEF OnSm
  <2>3. CASE \E i \in DOMAIN back : OnNak(i)  BY <1>0, <2>3 DEF OnNak
  <2>4. CASE \E n \in scheduled : Retransmit(n)  BY <1>0, <1>2, <2>4 DEF Retransmit
  <2>5. CASE \E p \in lingering : LingerOver(p)  BY <1>0, <2>5 DEF LingerOver
  <2> QED  BY <1>8, <2>1, <2>2, <2>3, <2>4, <2>5 DEF Sender
<1> QED  BY <1>4, <1>5, <1>6, <1>7, <1>8 DEF Next

\* The last frame of a scan is whole: the sender passes the limit by less.
SentBelow == sender.position < sender.limit + FrameLength

\* Every step keeps it.
LEMMA NextSentBelow == StreamInv /\ SentBelow /\ [Next]_vars => SentBelow'
<1> SUFFICES ASSUME StreamInv, SentBelow, [Next]_vars PROVE SentBelow'  OBVIOUS
<1>0. /\ sender.position \in Nat /\ sender.limit \in Nat /\ pub_position \in Nat
      /\ FrameLength \in Nat \ {0}
  BY StreamAssumption DEF StreamInv
<1>1. ASSUME NEW setup_due \in BOOLEAN, NEW others \in 0 .. MaxHousekeeping,
             DoSend(setup_due, others)
      PROVE  SentBelow'
  <2>1. others \in Nat  BY StreamAssumption
  <2>2. PICK slots \in Nat :
          /\ sender'.limit = sender.limit
          /\ sender'.position = sender.position + Len(ScannedFrames(slots)) * FrameLength
    BY <1>1, <2>1, DoSendFrames
  <2> DEFINE limit == ScanLimit(slots)
             found == Len(ScannedFrames(slots))
             taken == found * FrameLength
  <2>3. limit \in Nat /\ (limit > 0 => limit <= sender.limit - sender.position)
    BY <1>0, ScanClamped
  <2>4. /\ found \in Nat /\ taken \in Nat /\ taken < limit + FrameLength
        /\ limit = 0 => found = 0
    BY <1>0, <2>3, FoundBelow, Zenon DEF ScannedFrames
  <2> HIDE DEF limit, found
  <2>5. limit = 0 => taken = 0  BY <1>0, <2>4
  <2>6. sender'.position = sender.position + taken  BY <2>2 DEF found
  <2> HIDE DEF taken
  <2>7. sender.position + taken < sender.limit + FrameLength
    BY <1>0, <2>3, <2>4, <2>5 DEF SentBelow
  <2> QED  BY <2>2, <2>6, <2>7 DEF SentBelow
<1>2. CASE ~ \E setup_due \in BOOLEAN, others \in 0 .. MaxHousekeeping :
               DoSend(setup_due, others)
  <2>1. sender'.position = sender.position /\ sender.limit <= sender'.limit
    BY <1>2, OtherSteps
  <2>2. sender'.limit \in Nat
    <3>1. StreamInv'  BY NextStream
    <3> QED  BY <3>1 DEF StreamInv
  <2> QED  BY <1>0, <2>1, <2>2 DEF SentBelow
<1> QED  BY <1>1, <1>2

\* The sender never passes its limit by a whole frame, whatever the lengths
\* of frames and windows.
THEOREM SenderStaysBelow == Spec => []SentBelow
<1>1. Init => SentBelow
  BY StreamAssumption, TermLengthAssumption DEF Init, SentBelow
<1> QED  BY <1>1, InitStream, NextStream, NextSentBelow, PTL DEF Spec

\* When every frame has the length of the MTU, a step leaves none unsent.
LEMMA NextScannedIsSent ==
    ASSUME FrameLength = Mtu
    PROVE  StreamInv /\ ScannedIsSent /\ [Next]_vars => ScannedIsSent'
<1> SUFFICES ASSUME StreamInv, ScannedIsSent, [Next]_vars PROVE ScannedIsSent'  OBVIOUS
<1>0. /\ sender.position \in Nat /\ sender.limit \in Nat /\ pub_position \in Nat
      /\ FrameLength \in Nat \ {0}
  BY StreamAssumption DEF StreamInv
<1>1. ASSUME NEW setup_due \in BOOLEAN, NEW others \in 0 .. MaxHousekeeping,
             DoSend(setup_due, others)
      PROVE  ScannedIsSent'
  <2>1. others \in Nat  BY StreamAssumption
  <2>2. PICK slots \in Nat : Len(ScannedFrames(slots)) <= slots => unsent' = unsent
    BY <1>1, <2>1, DoSendFrames
  <2> DEFINE limit == ScanLimit(slots)
             found == Len(ScannedFrames(slots))
  <2>3. limit \in Nat /\ slots * Mtu \in Nat /\ limit <= slots * Mtu
    BY <1>0, ScanClamped
  <2>4. /\ found \in Nat /\ found * FrameLength \in Nat
        /\ found * FrameLength < limit + FrameLength
    BY <1>0, <2>3, FoundBelow, Zenon DEF ScannedFrames
  <2> HIDE DEF limit, found
  <2>5. ASSUME slots < found PROVE FALSE
    <3>1. slots * FrameLength + FrameLength <= found * FrameLength
      BY <1>0, <2>4, <2>5, Product
    <3>2. slots * FrameLength \in Nat /\ limit <= slots * FrameLength  BY <2>3
    <3> QED  BY <1>0, <2>3, <2>4, <3>1, <3>2
  <2>6. found <= slots  BY <2>4, <2>5
  <2> QED  BY <2>2, <2>6 DEF found, ScannedIsSent
<1>2. CASE ~ \E setup_due \in BOOLEAN, others \in 0 .. MaxHousekeeping :
               DoSend(setup_due, others)
  BY <1>2, OtherSteps DEF ScannedIsSent
<1> QED  BY <1>1, <1>2

\* Frames of one MTU are never dropped for want of a send slot: do_send's
\* clamp by the available slots is exact.
THEOREM NoFrameWithoutSlot ==
    ASSUME FrameLength = Mtu
    PROVE  Spec => []ScannedIsSent
<1>1. Init => ScannedIsSent  BY DEF Init, ScannedIsSent
<1>2. StreamInv /\ ScannedIsSent /\ [Next]_vars => ScannedIsSent'  BY NextScannedIsSent
<1> QED  BY <1>1, <1>2, InitStream, NextStream, PTL DEF Spec

-----------------------------------------------------------------------------
(* What is on its way. *)

\* Datagrams towards the receiver: a data frame lies before the sender.
Behind == {m \in Messages : m.type = "data" => m.pos < sender.position}

\* Datagrams towards the sender: a NAK asks for what the sender has passed.
Asked == {m \in Messages : m.type = "nak" => m.pos + m.len <= sender.position}

(***************************************************************************)
(* NothingAhead needs what a NAK may ask for: its range ends at a frame    *)
(* that arrived, so the sender has passed it, and the sender does not go   *)
(* back while the NAK is on its way or in the handler's delay.             *)
(***************************************************************************)
AheadInv ==
    /\ pub_position <= MaxPosition
    /\ forward \in Seq(Behind)
    /\ back \in Seq(Asked)
    /\ \A n \in scheduled : n \in Asked /\ n.type = "nak"

\* Until the log is full every position lies where it was written.
LEMMA StoredWhereWritten ==
    ASSUME NEW p \in Nat, pub_position \in Nat, p < pub_position,
           pub_position <= TermLength * PARTITION_COUNT
    PROVE  StoredAt(p) = p
<1> DEFINE last == TermOf(pub_position - 1)
           term == TermOf(p)
<1>0. pub_position - 1 \in Nat  OBVIOUS
<1>1. /\ last \in Nat /\ OffsetOf(pub_position - 1) \in 0 .. TermLength - 1
      /\ pub_position - 1 = last * TermLength + OffsetOf(pub_position - 1)
  BY <1>0, Split
<1>2. term \in Nat /\ OffsetOf(p) \in 0 .. TermLength - 1 /\ p = term * TermLength + OffsetOf(p)
  BY Split
<1>3. StoredAt(p) = compute_position(last - ((last - term) % PARTITION_COUNT), OffsetOf(p))
  BY DEF StoredAt
<1> HIDE DEF last, term
<1>4. ASSUME last < term PROVE FALSE
  <2>1. /\ last * TermLength \in Int /\ term * TermLength \in Int
        /\ last * TermLength + TermLength <= term * TermLength
    BY <1>1, <1>2, <1>4, Product, TermLengthAssumption
  <2> QED  BY <1>1, <1>2, <2>1, TermLengthAssumption
<1>5. ASSUME 3 < last PROVE FALSE
  <2>1. 3 \in Int /\ TermLength \in Nat \ {0}  BY TermLengthAssumption
  <2>2. last * TermLength \in Int /\ 3 * TermLength + TermLength <= last * TermLength
    BY <1>1, <1>5, <2>1, Product
  <2>3. TermLength * PARTITION_COUNT = 3 * TermLength + TermLength
    BY <2>1 DEF PARTITION_COUNT
  <2> QED  BY <1>1, <2>1, <2>2, <2>3
<1>6. last - term \in 0 .. 3  BY <1>1, <1>2, <1>4, <1>5
<1>7. last - ((last - term) % PARTITION_COUNT) = term
  BY <1>1, <1>2, <1>6 DEF PARTITION_COUNT
<1> QED  BY <1>2, <1>3, <1>7 DEF compute_position

\* The frames of a scan lie before its limit and before where it ends.
LEMMA FramesBelow ==
    ASSUME NEW from \in Nat, NEW limit \in Int,
           NEW i \in 1 .. Len(Frames(from, limit))
    PROVE  LET found == Len(Frames(from, limit))
               p == Frames(from, limit)[i]
           IN  /\ p < from + limit
               /\ p < from + found * FrameLength
<1> DEFINE frames == Frames(from, limit)
           found  == Len(frames)
           top    == limit + FrameLength - 1
           whole  == top \div FrameLength
           k      == (i - 1) * FrameLength
<1>0. FrameLength \in Nat \ {0}  BY StreamAssumption
<1>1. /\ found \in Nat
      /\ frames = [j \in 1 .. found |-> from + (j - 1) * FrameLength]
      /\ found > 0 => found <= whole
  BY FramesFound, Zenon
<1>2. top \in Int  BY <1>0
<1>3. whole \in Int /\ top % FrameLength \in Nat /\ top = whole * FrameLength + (top % FrameLength)
  <2> HIDE DEF top
  <2>1. /\ whole \in Int /\ top % FrameLength \in 0 .. FrameLength - 1
        /\ top = whole * FrameLength + (top % FrameLength)
    BY <1>0, <1>2, Division, Zenon
  <2>2. top % FrameLength \in Nat  BY <1>0, <2>1
  <2> QED  BY <2>1, <2>2
<1>4. i \in 1 .. found  OBVIOUS
<1> HIDE DEF frames, found, whole
<1>5. frames[i] = from + k  BY <1>1, <1>4
<1>6. i - 1 \in Int /\ i - 1 < found /\ i - 1 < whole  BY <1>1, <1>3, <1>4
<1>7. k \in Int /\ k + FrameLength <= found * FrameLength /\ found * FrameLength \in Int
  BY <1>0, <1>1, <1>6, Product
<1>8. k + FrameLength <= whole * FrameLength /\ whole * FrameLength \in Int
  BY <1>0, <1>3, <1>6, Product
<1> HIDE DEF k
<1>9. k < limit  BY <1>0, <1>3, <1>7, <1>8
<1>10. k < found * FrameLength  BY <1>0, <1>7
<1>11. frames[i] < from + limit /\ frames[i] < from + found * FrameLength
  BY <1>5, <1>7, <1>9, <1>10
<1> QED  BY <1>11 DEF frames, found

\* What finds a slot is among what was scanned.
LEMMA SentAmong ==
    ASSUME NEW S, NEW frames \in Seq(Nat), NEW slots \in Nat,
           \A i \in 1 .. Len(frames) : Data(frames[i]) \in S
    PROVE  LET sent == SubSeq(frames, 1, Min({Len(frames), slots}))
           IN  [i \in DOMAIN sent |-> Data(sent[i])] \in Seq(S)
<1> DEFINE n    == Min({Len(frames), slots})
           sent == SubSeq(frames, 1, n)
<1>1. Len(frames) \in Nat  OBVIOUS
<1>2. n \in Nat /\ n <= Len(frames)  BY <1>1, OfTwo, SMTT(40)
<1> HIDE DEF n
<1>3. sent \in Seq(Nat) /\ Len(sent) = n /\ \A i \in 1 .. n : sent[i] = frames[i]
  BY <1>1, <1>2, SMT
<1>4. DOMAIN sent = 1 .. n  BY <1>3, IndicesOf
<1> HIDE DEF sent
<1>5. \A i \in 1 .. n : Data(sent[i]) \in S  BY <1>1, <1>2, <1>3, SMTT(40)
<1>6. [i \in DOMAIN sent |-> Data(sent[i])] \in Seq(S)  BY <1>2, <1>4, <1>5
<1> QED  BY <1>6, Zenon DEF sent, n

\* No step takes the sender back.
LEMMA SenderAdvances ==
    ASSUME StreamInv, [Next]_vars
    PROVE  /\ sender.position \in Nat /\ sender'.position \in Nat
           /\ sender.position <= sender'.position
<1>1. sender.position \in Nat  BY DEF StreamInv
<1>2. ASSUME NEW setup_due \in BOOLEAN, NEW others \in 0 .. MaxHousekeeping,
             DoSend(setup_due, others)
      PROVE  sender'.position \in Nat /\ sender.position <= sender'.position
  <2>1. others \in Nat  BY StreamAssumption
  <2>2. PICK slots \in Nat :
          sender'.position = sender.position + Len(ScannedFrames(slots)) * FrameLength
    BY <1>2, <2>1, DoSendFrames
  <2> DEFINE taken == Len(ScannedFrames(slots)) * FrameLength
  <2>3. sender.limit \in Nat /\ pub_position \in Nat  BY DEF StreamInv
  <2>4. ScanLimit(slots) \in Nat  BY <1>1, <2>3, ScanClamped
  <2>5. taken \in Nat  BY <1>1, <2>4, FoundBelow, Zenon DEF ScannedFrames
  <2>6. sender'.position = sender.position + taken  BY <2>2
  <2> HIDE DEF taken
  <2> QED  BY <1>1, <2>5, <2>6
<1>3. CASE ~ \E setup_due \in BOOLEAN, others \in 0 .. MaxHousekeeping :
               DoSend(setup_due, others)
  <2>1. sender'.position = sender.position  BY <1>3, OtherSteps
  <2> QED  BY <1>1, <2>1
<1> QED  BY <1>1, <1>2, <1>3

\* What the sender has passed, it has passed after the step.
LEMMA StillBehind ==
    ASSUME StreamInv, [Next]_vars
    PROVE  Behind \subseteq Behind' /\ Asked \subseteq Asked'
<1> DEFINE old == sender.position
           new == sender'.position
<1>1. old \in Nat /\ new \in Nat /\ old <= new  BY SenderAdvances
<1>2. /\ Behind  = {m \in Messages : m.type = "data" => m.pos < old}
      /\ Behind' = {m \in Messages : m.type = "data" => m.pos < new}
      /\ Asked   = {m \in Messages : m.type = "nak" => m.pos + m.len <= old}
      /\ Asked'  = {m \in Messages : m.type = "nak" => m.pos + m.len <= new}
  BY DEF Behind, Asked, Messages
<1>3. \A m \in Messages : m.pos \in Nat /\ m.len \in Nat  BY DEF Messages
<1> HIDE DEF old, new
<1>4. Behind \subseteq Behind'  BY <1>1, <1>2, <1>3
<1>5. Asked \subseteq Asked'  BY <1>1, <1>2, <1>3
<1> QED  BY <1>4, <1>5

\* What do_send puts on the way: a Setup and frames of the scan.
LEMMA DoSendForward ==
    ASSUME StreamInv, NEW setup_due \in BOOLEAN, NEW others \in Nat,
           DoSend(setup_due, others),
           NEW S, forward \in Seq(S), Setup(pub_position) \in S
    PROVE  \E slots \in Nat :
             /\ ScanLimit(slots) \in Nat
             /\ FramesOf(ScannedFrames(slots))
             /\ sender'.position = sender.position + Len(ScannedFrames(slots)) * FrameLength
             /\ (\A i \in 1 .. Len(ScannedFrames(slots)) : Data(ScannedFrames(slots)[i]) \in S)
                  => forward' \in Seq(S)
<1> DEFINE setup  == IF sender.needs_setup /\ setup_due /\ sender.send_free > 0
                     THEN <<Setup(pub_position)>> ELSE <<>>
           slots  == Max({0, sender.send_free - Len(setup) - others})
           frames == ScannedFrames(slots)
           sent   == SubSeq(frames, 1, Min({Len(frames), slots}))
           datagrams == [i \in DOMAIN sent |-> Data(sent[i])]
<1>1. /\ forward' = forward \o setup \o datagrams
      /\ sender' = [sender EXCEPT !.position = @ + Len(frames) * FrameLength,
                                  !.send_free = slots - Len(sent)]
  BY DEF DoSend
<1>2. setup \in Seq(S) /\ Len(setup) \in 0 .. 1  OBVIOUS
<1> HIDE DEF setup
<1>3. slots \in Nat
  <2>1. sender.send_free - Len(setup) - others \in Int  BY <1>2 DEF StreamInv
  <2> QED  BY <2>1, CutOff
<1> HIDE DEF slots
<1>4. sender.position \in Nat /\ sender.limit \in Nat /\ pub_position \in Nat
  BY DEF StreamInv
<1>5. ScanLimit(slots) \in Nat  BY <1>3, <1>4, ScanClamped, Zenon
<1>6. FramesOf(frames)  BY <1>4, <1>5, FramesWithin DEF ScannedFrames
<1> HIDE DEF frames
<1>7. sender'.position = sender.position + Len(frames) * FrameLength
  <2> DEFINE more == Len(frames) * FrameLength
             left == slots - Len(sent)
             ahead == [sender EXCEPT !.position = @ + more]
  <2>1. sender \in [position : Nat, limit : Nat, needs_setup : BOOLEAN, send_free : Nat]
    BY DEF StreamInv
  <2>2. sender' = [ahead EXCEPT !.send_free = left]  BY <1>1, Zenon
  <2> HIDE DEF more, left
  <2>3. ahead.position = sender.position + more
        /\ DOMAIN ahead = {"position", "limit", "needs_setup", "send_free"}
    BY <2>1, SMTT(40)
  <2> HIDE DEF ahead
  <2>4. sender'.position = ahead.position  BY <2>2, <2>3
  <2> QED  BY <2>3, <2>4 DEF more
<1>8. ASSUME \A i \in 1 .. Len(frames) : Data(frames[i]) \in S
      PROVE  forward' \in Seq(S)
  <2>1. frames \in Seq(Nat)  BY <1>6 DEF FramesOf
  <2>2. datagrams \in Seq(S)  BY <1>3, <1>8, <2>1, SentAmong, Zenon
  <2> HIDE DEF datagrams
  <2>3. forward \o setup \in Seq(S)  BY <1>2, Concatenated
  <2> QED  BY <1>1, <2>2, <2>3, Concatenated
<1> QED  BY <1>3, <1>5, <1>6, <1>7, <1>8, Zenon DEF frames

\* do_send puts frames on the way that the sender then has passed.
LEMMA DoSendBehind ==
    ASSUME StreamInv, AheadInv, [Next]_vars, NEW setup_due \in BOOLEAN,
           NEW others \in Nat, DoSend(setup_due, others)
    PROVE  forward' \in Seq(Behind')
<1> DEFINE after == Behind'
<1>1. forward \in Seq(after)
  <2>1. forward \in Seq(Behind)  BY DEF AheadInv
  <2> QED  BY <2>1, StillBehind, LargerSet
<1>2. Setup(pub_position) \in after  BY DEF Setup, Behind, Messages, StreamInv
<1>3. after = {m \in Messages : m.type = "data" => m.pos < sender'.position}
  BY DEF Behind, Messages
<1> HIDE DEF after
<1>4. PICK slots \in Nat :
        /\ ScanLimit(slots) \in Nat
        /\ FramesOf(ScannedFrames(slots))
        /\ sender'.position = sender.position + Len(ScannedFrames(slots)) * FrameLength
        /\ (\A i \in 1 .. Len(ScannedFrames(slots)) : Data(ScannedFrames(slots)[i]) \in after)
             => forward' \in Seq(after)
  BY <1>1, <1>2, DoSendForward, Zenon
<1> DEFINE from   == sender.position
           limit  == ScanLimit(slots)
           frames == ScannedFrames(slots)
<1>5. from \in Nat /\ limit \in Int /\ frames = Frames(from, limit)
  BY <1>4 DEF ScannedFrames, StreamInv
<1>6. /\ FramesOf(frames) /\ sender'.position = from + Len(frames) * FrameLength
      /\ (\A i \in 1 .. Len(frames) : Data(frames[i]) \in after) => forward' \in Seq(after)
  BY <1>4
<1> HIDE DEF from, limit, frames
<1>7. \A i \in 1 .. Len(frames) : frames[i] < from + Len(frames) * FrameLength
  BY <1>5, FramesBelow, Zenon
<1>8. \A i \in 1 .. Len(frames) : Data(frames[i]) \in after
  <2> TAKE i \in 1 .. Len(frames)
  <2>1. Data(frames[i]) \in Messages  BY <1>6 DEF FramesOf, Framed
  <2>2. Data(frames[i]).pos = frames[i]  BY DEF Data
  <2>3. frames[i] < sender'.position  BY <1>6, <1>7
  <2> QED  BY <1>3, <2>1, <2>2, <2>3
<1> QED  BY <1>6, <1>8 DEF after

\* A retransmission sends no frame past the range that was asked for.
LEMMA RetransmitBehind ==
    ASSUME StreamInv, AheadInv, [Next]_vars, NEW n \in scheduled, Retransmit(n),
           MaxPosition <= TermLength * PARTITION_COUNT
    PROVE  forward' \in Seq(Behind')
<1> DEFINE frames == IF InLog(n.pos) THEN Retransmitted(n) ELSE <<>>
           sent   == SubSeq(frames, 1, Min({Len(frames), NumSlots}))
           datagrams == [i \in DOMAIN sent |-> Data(sent[i])]
<1>1. /\ forward' = forward \o datagrams
      /\ sender' = [sender EXCEPT !.send_free = NumSlots - Len(sent)]
  BY DEF Retransmit
<1>2. /\ n.pos \in Nat /\ n.len \in Nat /\ n.pos + n.len <= sender.position
      /\ pub_position \in Nat /\ sender.position \in Nat
  BY DEF AheadInv, Asked, StreamInv, Messages
<1>3. sender'.position = sender.position  BY <1>1 DEF StreamInv
<1>4. /\ FramesOf(frames)
      /\ \A i \in 1 .. Len(frames) : frames[i] < sender.position
  <2>1. CASE InLog(n.pos)
    <3> DEFINE from  == n.pos
               limit == Min({n.len, Mtu, pub_position - from})
    <3>1. StoredAt(n.pos) = n.pos
      <4>1. n.pos < pub_position  BY <2>1 DEF InLog
      <4>2. pub_position <= TermLength * PARTITION_COUNT
        BY <1>2, StreamAssumption, TermLengthAssumption, SMTT(40) DEF AheadInv, PARTITION_COUNT
      <4> QED  BY <1>2, <4>1, <4>2, StoredWhereWritten
    <3>2. limit \in Int /\ limit <= n.len
      <4> DEFINE rest == pub_position - from
                 len  == n.len
      <4>1. len \in Int /\ Mtu \in Int /\ rest \in Int  BY <1>2, StreamAssumption
      <4>2. limit = Min({len, Mtu, rest})  OBVIOUS
      <4> HIDE DEF rest, len, limit
      <4>3. limit \in Int /\ limit <= len  BY <4>1, <4>2 DEF Min
      <4> QED  BY <4>3 DEF len
    <3>3. frames = Frames(from, limit)  BY <2>1, <3>1 DEF Retransmitted
    <3>4. from \in Nat /\ from + limit <= sender.position
      <4> HIDE DEF limit
      <4> QED  BY <1>2, <3>2
    <3> HIDE DEF from, limit, frames
    <3>5. FramesOf(frames)  BY <3>2, <3>3, <3>4, FramesWithin
    <3>6. \A i \in 1 .. Len(frames) : frames[i] < from + limit
      BY <3>2, <3>3, <3>4, FramesBelow, Zenon
    <3>7. \A i \in 1 .. Len(frames) : frames[i] \in Nat  BY <3>5 DEF FramesOf
    <3> QED  BY <1>2, <3>2, <3>4, <3>5, <3>6, <3>7
  <2>2. CASE ~InLog(n.pos)
    <3>1. frames = <<>>  BY <2>2
    <3> HIDE DEF frames
    <3> QED  BY <3>1 DEF FramesOf
  <2> QED  BY <2>1, <2>2
<1> HIDE DEF frames
<1>5. \A i \in 1 .. Len(frames) : Data(frames[i]) \in Behind'
  <2> TAKE i \in 1 .. Len(frames)
  <2>1. Data(frames[i]) \in Messages  BY <1>4 DEF FramesOf, Framed
  <2>2. Data(frames[i]).pos = frames[i]  BY DEF Data
  <2>3. frames[i] < sender'.position  BY <1>3, <1>4
  <2> QED  BY <2>1, <2>2, <2>3 DEF Behind, Messages
<1>6. datagrams \in Seq(Behind')
  <2>1. frames \in Seq(Nat) /\ NumSlots \in Nat  BY <1>4, StreamAssumption DEF FramesOf
  <2> QED  BY <1>5, <2>1, SentAmong, Zenon
<1> HIDE DEF datagrams
<1>7. forward \in Seq(Behind')
  <2>1. forward \in Seq(Behind)  BY DEF AheadInv
  <2> QED  BY <2>1, StillBehind, LargerSet
<1> QED  BY <1>1, <1>6, <1>7, Concatenated

\* The receiver asks for the gap before a frame that the sender has passed.
LEMMA OnDataAsks ==
    ASSUME StreamInv, AheadInv, [Next]_vars, NEW i \in DOMAIN forward,
           NEW nak_due \in BOOLEAN, OnData(i, nak_due)
    PROVE  back' \in Seq(Asked')
<1> DEFINE p    == forward[i].pos
           term == image.active_term_id
           off  == image.expected_term_offset
           from == compute_position(term, off)
           gap  == Gap(p)
           nak  == Nak(from, gap)
<1>1. back \in Seq(Asked')
  <2>1. back \in Seq(Asked)  BY SMTT(40) DEF AheadInv
  <2> QED  BY <2>1, StillBehind, LargerSet
<1>2. \/ back' = back
      \/ back' = Append(back, nak) /\ gap > 0 /\ TermOf(p) = term
  BY SMTT(40) DEF OnData
<1>3. p \in Nat /\ p < sender.position /\ sender' = sender
  <2>1. forward[i] \in Behind /\ forward[i].type = "data"  BY DEF AheadInv, OnData
  <2> QED  BY <2>1, SMTT(40) DEF Behind, Messages, OnData
<1>4. sender.position \in Nat  BY DEF StreamInv
<1>5. ASSUME gap > 0, TermOf(p) = term PROVE nak \in Asked'
  <2>1. term \in Nat /\ off \in Nat
    BY TermLengthAssumption DEF StreamInv, ImageInv, Images
  <2>2. OffsetOf(p) \in Nat /\ p = TermOf(p) * TermLength + OffsetOf(p)
    <3>1. OffsetOf(p) \in 0 .. TermLength - 1 /\ p = TermOf(p) * TermLength + OffsetOf(p)
      BY <1>3, Split
    <3> QED  BY <3>1, TermLengthAssumption
  <2>3. gap = OffsetOf(p) - off  BY DEF Gap
  <2>4. term * TermLength \in Nat  BY <2>1, TermLengthAssumption
  <2>5. from = term * TermLength + off  BY DEF compute_position
  <2> HIDE DEF p, term, off, from, gap
  <2>6. from \in Nat /\ gap \in Nat /\ from + gap = p
    BY <1>5, <2>1, <2>2, <2>3, <2>4, <2>5
  <2>7. nak \in Messages /\ nak.pos = from /\ nak.len = gap
    BY <2>6 DEF Nak, Messages
  <2> HIDE DEF nak
  <2>8. nak.pos + nak.len <= sender'.position  BY <1>3, <1>4, <2>6, <2>7
  <2> QED  BY <2>7, <2>8 DEF Asked, Messages
<1> HIDE DEF nak, gap, term
<1> QED  BY <1>1, <1>2, <1>5

\* Until the log is full, every step keeps the invariant.
LEMMA NextAhead ==
    ASSUME MaxPosition <= TermLength * PARTITION_COUNT
    PROVE  StreamInv /\ AheadInv /\ [Next]_vars => AheadInv'
<1> SUFFICES ASSUME StreamInv, AheadInv, [Next]_vars PROVE AheadInv'  OBVIOUS
<1>1. forward \in Seq(Behind') /\ back \in Seq(Asked')
  <2>1. forward \in Seq(Behind) /\ back \in Seq(Asked)  BY DEF AheadInv
  <2> QED  BY <2>1, StillBehind, LargerSet
<1>2. \A n \in scheduled : n \in Asked' /\ n.type = "nak"  BY StillBehind DEF AheadInv
<1>3. pub_position <= MaxPosition  BY DEF AheadInv
<1>4. CASE Offer  BY <1>1, <1>2, <1>4 DEF Offer, handler, AheadInv
<1>5. ASSUME NEW setup_due \in BOOLEAN, NEW others \in 0 .. MaxHousekeeping,
             DoSend(setup_due, others)
      PROVE  AheadInv'
  <2>1. others \in Nat  BY StreamAssumption
  <2>2. forward' \in Seq(Behind')  BY <1>5, <2>1, DoSendBehind, SMTT(40)
  <2>3. pub_position' = pub_position /\ scheduled' = scheduled /\ back' = back
    BY <1>5 DEF DoSend, handler
  <2> QED  BY <1>1, <1>2, <1>3, <2>2, <2>3 DEF AheadInv
<1>6. CASE Reap  BY <1>1, <1>2, <1>3, <1>6 DEF Reap, handler, AheadInv
<1>7. ASSUME NEW i \in DOMAIN back, OnSm(i) PROVE AheadInv'
  <2>1. back' \in Seq(Asked')  BY <1>1, <1>7, Removed DEF OnSm
  <2> QED  BY <1>1, <1>2, <1>3, <1>7, <2>1 DEF OnSm, handler, AheadInv
<1>8. ASSUME NEW i \in DOMAIN back, OnNak(i) PROVE AheadInv'
  <2>1. back' \in Seq(Asked')  BY <1>1, <1>8, Removed DEF OnNak
  <2>2. back[i] \in Asked' /\ back[i].type = "nak"  BY <1>1, <1>8 DEF OnNak
  <2>3. scheduled' = scheduled \/ scheduled' = scheduled \cup {back[i]}  BY <1>8 DEF OnNak
  <2>4. \A n \in scheduled' : n \in Asked' /\ n.type = "nak"  BY <1>2, <2>2, <2>3
  <2>5. pub_position' = pub_position /\ forward' = forward  BY <1>8 DEF OnNak
  <2> QED  BY <1>1, <1>3, <2>1, <2>4, <2>5 DEF AheadInv
<1>9. ASSUME NEW n \in scheduled, Retransmit(n) PROVE AheadInv'
  <2>1. forward' \in Seq(Behind')  BY <1>9, RetransmitBehind
  <2>2. pub_position' = pub_position /\ scheduled' = scheduled \ {n} /\ back' = back
    BY <1>9 DEF Retransmit
  <2> QED  BY <1>1, <1>2, <1>3, <2>1, <2>2 DEF AheadInv
<1>10. ASSUME NEW p \in lingering, LingerOver(p) PROVE AheadInv'
  BY <1>1, <1>2, <1>3, <1>10 DEF LingerOver, AheadInv
<1>11. ASSUME NEW i \in DOMAIN forward, NEW nak_due \in BOOLEAN, OnData(i, nak_due)
       PROVE  AheadInv'
  <2>1. back' \in Seq(Asked')  BY <1>11, OnDataAsks, SMTT(40)
  <2>2. forward' \in Seq(Behind')  BY <1>1, <1>11, Removed, SMTT(40) DEF OnData
  <2>3. pub_position' = pub_position /\ scheduled' = scheduled  BY <1>11 DEF OnData, handler
  <2> QED  BY <1>2, <1>3, <2>1, <2>2, <2>3 DEF AheadInv
<1>12. ASSUME NEW i \in DOMAIN forward, OnSetup(i) PROVE AheadInv'
  <2>1. forward' \in Seq(Behind')  BY <1>1, <1>12, Removed, SMTT(40) DEF OnSetup
  <2>2. pub_position' = pub_position /\ scheduled' = scheduled /\ back' = back
    BY <1>12 DEF OnSetup, handler
  <2> QED  BY <1>1, <1>2, <1>3, <2>1, <2>2, SMTT(40) DEF AheadInv
<1>13. CASE SendSm
  <2> DEFINE c == Consumption
  <2>1. c \in Nat /\ ReceiverWindow \in Nat  BY ConsumptionIsNat, StreamAssumption DEF StreamInv
  <2>2. back' = Append(back, Sm(c))  BY <1>13 DEF SendSm
  <2> HIDE DEF c
  <2>3. Sm(c) \in Asked'  BY <2>1 DEF Sm, Asked, Messages
  <2>4. back' \in Seq(Asked')  BY <1>1, <2>2, <2>3
  <2>5. pub_position' = pub_position /\ scheduled' = scheduled /\ forward' = forward
    BY <1>13 DEF SendSm, handler
  <2> QED  BY <1>1, <1>2, <1>3, <2>4, <2>5 DEF AheadInv
<1>14. CASE Lose
  <2>1. forward' \in Seq(Behind') /\ back' \in Seq(Asked')
    <3>1. CASE (\E i \in DOMAIN forward : forward' = Without(forward, i)) /\ back' = back
      BY <1>1, <3>1, Removed
    <3>2. CASE (\E i \in DOMAIN back : back' = Without(back, i)) /\ forward' = forward
      BY <1>1, <3>2, Removed
    <3> QED  BY <1>14, <3>1, <3>2 DEF Lose
  <2>2. pub_position' = pub_position /\ scheduled' = scheduled  BY <1>14 DEF Lose, handler
  <2> QED  BY <1>2, <1>3, <2>1, <2>2 DEF AheadInv
<1>15. CASE UNCHANGED vars  BY <1>1, <1>2, <1>3, <1>15 DEF vars, handler, AheadInv
<1>16. CASE Sender  BY <1>5, <1>6, <1>7, <1>8, <1>9, <1>10, <1>16 DEF Sender
<1>17. CASE Receiver  BY <1>11, <1>12, <1>13, <1>17 DEF Receiver
<1> QED  BY <1>4, <1>14, <1>15, <1>16, <1>17 DEF Next

(***************************************************************************)
(* Until the publisher reuses a partition, only frames the sender has      *)
(* scanned are on their way: do_retransmit sends nothing past the range of *)
(* the NAK, however many frames were published or NAKs overtaken since.    *)
(***************************************************************************)
THEOREM NothingSentAhead ==
    ASSUME MaxPosition <= TermLength * PARTITION_COUNT
    PROVE  Spec => []NothingAhead
<1>1. Init => AheadInv
  BY StreamAssumption DEF Init, AheadInv
<1>2. StreamInv /\ AheadInv /\ [Next]_vars => AheadInv'  BY NextAhead
<1>3. AheadInv => NothingAhead  BY DEF AheadInv, NothingAhead, Behind
<1> QED  BY <1>1, <1>2, <1>3, InitStream, NextStream, PTL DEF Spec

-----------------------------------------------------------------------------
(* Whole frames. *)

\* A number of whole frames.
Whole(x) == \E k \in Int : x = k * FrameLength

\* Numbers of whole frames are closed under sum and difference.
LEMMA WholeSum ==
    ASSUME NEW a, NEW b, Whole(a), Whole(b)
    PROVE  a \in Int /\ b \in Int /\ Whole(a + b) /\ Whole(a - b)
<1>0. FrameLength \in Nat \ {0}  BY StreamAssumption
<1>1. PICK k \in Int : a = k * FrameLength  BY DEF Whole
<1>2. PICK l \in Int : b = l * FrameLength  BY DEF Whole
<1>3. a \in Int /\ b \in Int  BY <1>0, <1>1, <1>2
<1>4. k + l \in Int /\ a + b = (k + l) * FrameLength  BY <1>0, <1>1, <1>2
<1>5. k - l \in Int /\ a - b = (k - l) * FrameLength  BY <1>0, <1>1, <1>2
<1>6. Whole(a + b)  BY <1>4 DEF Whole
<1>7. Whole(a - b)  BY <1>5 DEF Whole
<1> QED  BY <1>3, <1>6, <1>7

\* A multiple of the frame length is one.
LEMMA WholeFrames == ASSUME NEW k \in Int PROVE Whole(k * FrameLength)
BY DEF Whole

\* No frames, and one frame.
LEMMA WholeOne == Whole(0) /\ Whole(FrameLength)
<1>0. FrameLength \in Nat \ {0}  BY StreamAssumption
<1>1. 0 = 0 * FrameLength /\ FrameLength = 1 * FrameLength  BY <1>0
<1> QED  BY <1>1 DEF Whole

\* Terms are full of frames.
LEMMA WholeTerms == ASSUME NEW t \in Int PROVE Whole(t * TermLength)
<1> DEFINE q == TermLength \div FrameLength
<1>0. FrameLength \in Nat \ {0} /\ TermLength \in Int /\ TermLength % FrameLength = 0
  BY StreamAssumption, TermLengthAssumption
<1>1. q \in Int /\ TermLength = q * FrameLength + (TermLength % FrameLength)
  BY <1>0, Division, Zenon
<1> HIDE DEF q
<1>2. q * FrameLength \in Int  BY <1>0, <1>1
<1>3. TermLength = q * FrameLength  BY <1>0, <1>1, <1>2
<1>4. t * (q * FrameLength) = (t * q) * FrameLength /\ t * q \in Int  BY <1>0, <1>1
<1> QED  BY <1>3, <1>4 DEF Whole

\* The greater of two.
LEMMA WholeMax == ASSUME NEW a, NEW b, Whole(a), Whole(b) PROVE Whole(Max({a, b}))
<1>1. a \in Int /\ b \in Int  BY WholeSum, Zenon
<1>2. Max({a, b}) = IF a <= b THEN b ELSE a  BY <1>1, OfTwo
<1> QED  BY <1>2

\* Two that differ by less than a frame one way do not differ that way.
LEMMA WholeBelow ==
    ASSUME NEW a, NEW b, Whole(a), Whole(b), a < b + FrameLength
    PROVE  a <= b
<1>0. FrameLength \in Nat \ {0}  BY StreamAssumption
<1>1. PICK k \in Int : a = k * FrameLength  BY DEF Whole
<1>2. PICK l \in Int : b = l * FrameLength  BY DEF Whole
<1>3. a \in Int /\ b \in Int  BY <1>0, <1>1, <1>2
<1>4. ASSUME l < k PROVE FALSE
  <2>1. l * FrameLength + FrameLength <= k * FrameLength  BY <1>0, <1>4, Product
  <2> QED  BY <1>0, <1>1, <1>2, <1>3, <2>1
<1>5. CASE k = l  BY <1>1, <1>2, <1>3, <1>5
<1>6. CASE k < l
  <2>1. k * FrameLength + FrameLength <= l * FrameLength  BY <1>0, <1>6, Product
  <2> QED  BY <1>0, <1>1, <1>2, <1>3, <2>1
<1> QED  BY <1>4, <1>5, <1>6

\* The offset of a position at whole frames, and the same offset in a term.
LEMMA WholeOffset ==
    ASSUME NEW p \in Nat, Whole(p)
    PROVE  /\ Whole(OffsetOf(p))
           /\ \A t \in Int : Whole(compute_position(t, OffsetOf(p)))
<1> DEFINE t == TermOf(p)
           o == OffsetOf(p)
<1>1. t \in Int /\ o \in Int /\ p = t * TermLength + o
  <2>1. t \in Nat /\ o \in 0 .. TermLength - 1 /\ p = t * TermLength + o  BY Split
  <2> HIDE DEF t, o
  <2> QED  BY <2>1, TermLengthAssumption
<1> HIDE DEF t, o
<1>2. Whole(t * TermLength)  BY <1>1, WholeTerms
<1>3. Whole(p - t * TermLength)  BY <1>2, WholeSum
<1>4. t * TermLength \in Int  BY <1>1, TermLengthAssumption
<1>5. p - t * TermLength = o  BY <1>1, <1>4
<1>6. Whole(o)  BY <1>3, <1>5
<1>7. \A u \in Int : Whole(u * TermLength + o)  BY <1>6, WholeTerms, WholeSum
<1> QED  BY <1>6, <1>7 DEF o, compute_position

\* The frames of a scan from a position at whole frames.
LEMMA FramesWhole ==
    ASSUME NEW from \in Nat, NEW limit \in Int, Whole(from),
           NEW i \in 1 .. Len(Frames(from, limit))
    PROVE  Whole(Frames(from, limit)[i])
<1> DEFINE frames == Frames(from, limit)
           found  == Len(frames)
<1>1. found \in Nat /\ frames = [j \in 1 .. found |-> from + (j - 1) * FrameLength]
  BY FramesFound
<1>2. i \in 1 .. found  OBVIOUS
<1> HIDE DEF frames, found
<1>3. frames[i] = from + (i - 1) * FrameLength /\ i - 1 \in Int  BY <1>1, <1>2
<1>4. Whole((i - 1) * FrameLength)  BY <1>3, WholeFrames
<1> QED  BY <1>3, <1>4, WholeSum DEF frames

\* Datagrams towards the receiver: frames, and the Setup, begin at whole frames.
WholeForward == {m \in Messages : Whole(m.pos)}

\* Datagrams towards the sender: what they say is in whole frames.
WholeBack == {m \in Messages : Whole(m.pos) /\ (m.type = "sm" => Whole(m.len))}

(***************************************************************************)
(* When the window holds whole frames, everything that is counted is a     *)
(* number of whole frames, the limit included.                             *)
(***************************************************************************)
WholeInv ==
    /\ Whole(pub_position) /\ Whole(sender.position) /\ Whole(sender.limit)
    /\ Whole(image.expected_term_offset) /\ Whole(image.consumption_term_offset)
    /\ forward \in Seq(WholeForward)
    /\ back \in Seq(WholeBack)
    /\ \A n \in scheduled : Whole(n.pos)

\* do_send scans whole frames.
LEMMA DoSendWhole ==
    ASSUME StreamInv, WholeInv, NEW setup_due \in BOOLEAN, NEW others \in Nat,
           DoSend(setup_due, others)
    PROVE  WholeInv'
<1>1. forward \in Seq(WholeForward)  BY DEF WholeInv
<1>2. Setup(pub_position) \in WholeForward
  BY DEF Setup, WholeForward, Messages, StreamInv, WholeInv
<1>3. PICK slots \in Nat :
        /\ ScanLimit(slots) \in Nat
        /\ FramesOf(ScannedFrames(slots))
        /\ sender'.position = sender.position + Len(ScannedFrames(slots)) * FrameLength
        /\ (\A i \in 1 .. Len(ScannedFrames(slots)) :
              Data(ScannedFrames(slots)[i]) \in WholeForward)
             => forward' \in Seq(WholeForward)
  BY <1>1, <1>2, DoSendForward, Zenon
<1> DEFINE from   == sender.position
           limit  == ScanLimit(slots)
           frames == ScannedFrames(slots)
<1>4. from \in Nat /\ limit \in Int /\ frames = Frames(from, limit) /\ Whole(from)
  BY <1>3 DEF ScannedFrames, StreamInv, WholeInv
<1>5. /\ FramesOf(frames) /\ sender'.position = from + Len(frames) * FrameLength
      /\ (\A i \in 1 .. Len(frames) : Data(frames[i]) \in WholeForward)
           => forward' \in Seq(WholeForward)
  BY <1>3
<1> HIDE DEF from, limit, frames
<1>6. \A i \in 1 .. Len(frames) : Data(frames[i]) \in WholeForward
  <2> TAKE i \in 1 .. Len(frames)
  <2>1. Data(frames[i]) \in Messages  BY <1>5 DEF FramesOf, Framed
  <2>2. Data(frames[i]).pos = frames[i]  BY DEF Data
  <2>3. Whole(frames[i])  BY <1>4, FramesWhole, Zenon
  <2> QED  BY <2>1, <2>2, <2>3 DEF WholeForward
<1>7. Whole(sender'.position)
  <2>1. Len(frames) \in Int  BY <1>5 DEF FramesOf
  <2>2. Whole(Len(frames) * FrameLength)  BY <2>1, WholeFrames
  <2> QED  BY <1>4, <1>5, <2>2, WholeSum
<1>8. sender'.limit = sender.limit  BY DoSendFrames, SMTT(40)
<1>9. /\ pub_position' = pub_position /\ image' = image /\ back' = back
      /\ scheduled' = scheduled
  BY DEF DoSend, handler
<1> QED  BY <1>5, <1>6, <1>7, <1>8, <1>9 DEF WholeInv

\* A status message permits whole frames.
LEMMA OnSmWhole ==
    ASSUME StreamInv, WholeInv, NEW i \in DOMAIN back, OnSm(i)
    PROVE  WholeInv'
<1> DEFINE heard == [sender EXCEPT !.needs_setup = FALSE]
           held  == sender.limit
           end   == back[i].pos + back[i].len
           l     == LimitAfter(back[i])
<1>1. Whole(held) /\ Whole(end)
  <2>1. back[i] \in WholeBack /\ back[i].type = "sm"  BY DEF WholeInv, OnSm
  <2>2. Whole(back[i].pos) /\ Whole(back[i].len)  BY <2>1 DEF WholeBack
  <2> QED  BY <2>2, WholeSum DEF WholeInv
<1>2. l = Max({held, end})  BY DEF LimitAfter
<1>3. sender' = [heard EXCEPT !.limit = l]  BY Zenon DEF OnSm
<1>4. /\ heard \in [position : Nat, limit : Nat, needs_setup : BOOLEAN, send_free : Nat]
      /\ heard.position = sender.position
  BY Zenon DEF StreamInv
<1> HIDE DEF heard, held, end, l
<1>5. Whole(l)  BY <1>1, <1>2, WholeMax
<1>6. sender'.position = sender.position /\ sender'.limit = l  BY <1>3, <1>4
<1>7. back' \in Seq(WholeBack)
  <2>1. back \in Seq(WholeBack) /\ back' = Without(back, i)  BY DEF WholeInv, OnSm
  <2> QED  BY <2>1, Removed
<1>8. /\ pub_position' = pub_position /\ image' = image /\ forward' = forward
      /\ scheduled' = scheduled
  BY DEF OnSm, handler
<1> QED  BY <1>5, <1>6, <1>7, <1>8 DEF WholeInv

\* A retransmission begins at a position the receiver asked for, or at the
\* same offset of the term that took its place.
LEMMA RetransmitWhole ==
    ASSUME StreamInv, WholeInv, NEW n \in scheduled, Retransmit(n)
    PROVE  WholeInv'
<1> DEFINE frames == IF InLog(n.pos) THEN Retransmitted(n) ELSE <<>>
           sent   == SubSeq(frames, 1, Min({Len(frames), NumSlots}))
           datagrams == [i \in DOMAIN sent |-> Data(sent[i])]
<1>1. /\ forward' = forward \o datagrams
      /\ sender' = [sender EXCEPT !.send_free = NumSlots - Len(sent)]
      /\ scheduled' = scheduled \ {n}
      /\ pub_position' = pub_position /\ back' = back /\ image' = image
  BY DEF Retransmit
<1>2. n.pos \in Nat /\ n.len \in Nat /\ Whole(n.pos)  BY DEF StreamInv, Messages, WholeInv
<1>3. sender'.position = sender.position /\ sender'.limit = sender.limit
  BY <1>1 DEF StreamInv
<1>4. /\ FramesOf(frames)
      /\ \A i \in 1 .. Len(frames) : Whole(frames[i])
  <2>1. CASE InLog(n.pos)
    <3> DEFINE from  == StoredAt(n.pos)
               limit == Min({n.len, Mtu, pub_position - from})
    <3>1. from \in Nat  BY <1>2, <2>1, StoredIsNat DEF InLog, StreamInv
    <3>2. limit \in Int
      <4>1. n.len \in Int /\ Mtu \in Int /\ pub_position - from \in Int
        <5>1. pub_position \in Nat /\ Mtu \in Nat  BY StreamAssumption DEF StreamInv
        <5> HIDE DEF from
        <5> QED  BY <1>2, <3>1, <5>1
      <4> QED  BY <4>1 DEF Min
    <3>3. frames = Frames(from, limit)  BY <2>1 DEF Retransmitted
    <3>4. Whole(from)
      <4> DEFINE last == TermOf(pub_position - 1)
                 term == last - ((last - TermOf(n.pos)) % PARTITION_COUNT)
      <4>1. pub_position - 1 \in Nat  BY <1>2, <2>1 DEF InLog, StreamInv
      <4>2. last \in Nat /\ TermOf(n.pos) \in Nat  BY <1>2, <4>1, Split
      <4>3. term \in Int
        <5> HIDE DEF last
        <5> QED  BY <4>2 DEF PARTITION_COUNT
      <4>4. from = compute_position(term, OffsetOf(n.pos))  BY DEF StoredAt
      <4> HIDE DEF term
      <4> QED  BY <1>2, <4>3, <4>4, WholeOffset
    <3> HIDE DEF from, limit, frames
    <3>5. FramesOf(frames)  BY <3>1, <3>2, <3>3, FramesWithin
    <3>6. \A i \in 1 .. Len(frames) : Whole(frames[i])
      BY <3>1, <3>2, <3>3, <3>4, FramesWhole, Zenon
    <3> QED  BY <3>5, <3>6
  <2>2. CASE ~InLog(n.pos)
    <3>1. frames = <<>>  BY <2>2
    <3> HIDE DEF frames
    <3> QED  BY <3>1 DEF FramesOf
  <2> QED  BY <2>1, <2>2
<1> HIDE DEF frames
<1>5. \A i \in 1 .. Len(frames) : Data(frames[i]) \in WholeForward
  <2> TAKE i \in 1 .. Len(frames)
  <2>1. Data(frames[i]) \in Messages  BY <1>4 DEF FramesOf, Framed
  <2>2. Data(frames[i]).pos = frames[i]  BY DEF Data
  <2> QED  BY <1>4, <2>1, <2>2 DEF WholeForward
<1>6. datagrams \in Seq(WholeForward)
  <2>1. frames \in Seq(Nat) /\ NumSlots \in Nat  BY <1>4, StreamAssumption DEF FramesOf
  <2> QED  BY <1>5, <2>1, SentAmong, Zenon
<1> HIDE DEF datagrams
<1>7. forward' \in Seq(WholeForward)  BY <1>1, <1>6, Concatenated DEF WholeInv
<1> QED  BY <1>1, <1>3, <1>7 DEF WholeInv

\* The marks of the image are at whole frames, and so is the gap it NAKs.
LEMMA OnDataWhole ==
    ASSUME StreamInv, WholeInv, NEW i \in DOMAIN forward, NEW nak_due \in BOOLEAN,
           OnData(i, nak_due)
    PROVE  WholeInv'
<1> DEFINE p       == forward[i].pos
           term    == TermOf(p)
           end     == OffsetOf(p) + FrameLength
           rotated == Rotated(term)
<1>1. /\ pub_position' = pub_position /\ sender' = sender /\ scheduled' = scheduled
      /\ forward' = Without(forward, i)
  BY DEF OnData, handler
<1>2. p \in Nat /\ Whole(p)
  <2>1. forward[i] \in WholeForward  BY DEF WholeInv
  <2> QED  BY <2>1 DEF WholeForward, Messages
<1>3. Whole(end)
  <2>1. Whole(OffsetOf(p))  BY <1>2, WholeOffset
  <2> QED  BY <2>1, WholeOne, WholeSum
<1>4. forward' \in Seq(WholeForward)  BY <1>1, Removed DEF WholeInv
<1>5. image \in Images /\ ImageInv  BY DEF StreamInv, ImageInv
<1>6. term \in Nat  BY <1>2, Split
<1>7. /\ rotated \in Images
      /\ Whole(rotated.expected_term_offset) /\ Whole(rotated.consumption_term_offset)
  <2>1. rotated \in Images  BY <1>5, <1>6, RotatedImage
  <2>2. CASE term <= image.active_term_id
    <3>1. rotated = image  BY <2>2 DEF Rotated
    <3> QED  BY <2>1, <3>1 DEF WholeInv
  <2>3. CASE ~(term <= image.active_term_id)
    <3> DEFINE a == [image EXCEPT !.active_term_id = term]
               b == [a EXCEPT !.expected_term_offset = 0]
               c == [b EXCEPT !.consumption_term_id = term]
    <3>1. rotated = [c EXCEPT !.consumption_term_offset = 0]  BY <2>3, Zenon DEF Rotated
    <3>2. a \in Images  BY <1>5, <1>6 DEF Images
    <3> HIDE DEF a, rotated
    <3>3. b \in Images /\ b.expected_term_offset = 0
      BY <3>2, TermLengthAssumption DEF Images
    <3> HIDE DEF b
    <3>4. c \in Images /\ c.expected_term_offset = 0  BY <1>6, <3>3 DEF Images
    <3> HIDE DEF c
    <3>5. rotated.expected_term_offset = 0 /\ rotated.consumption_term_offset = 0
      BY <3>1, <3>4, SMTT(40) DEF Images
    <3> QED  BY <2>1, <3>5, WholeOne
  <2> QED  BY <2>2, <2>3
<1>8. /\ Whole(image'.expected_term_offset) /\ Whole(image'.consumption_term_offset)
  <2> DEFINE marked == Marked(rotated, term, end)
  <2>1. image' = image \/ image' = rotated \/ image' = marked  BY DEF OnData
  <2> HIDE DEF rotated, term, end
  <2>2. /\ Whole(marked.expected_term_offset) /\ Whole(marked.consumption_term_offset)
    <3> DEFINE o == rotated.consumption_term_offset
               e == rotated.expected_term_offset
               consumed == IF term = rotated.consumption_term_id THEN Max({o, end}) ELSE o
               a == [rotated EXCEPT !.consumption_term_offset = consumed]
               expected == IF term = rotated.active_term_id THEN Max({e, end}) ELSE e
    <3>1. a.expected_term_offset = e  BY <1>7 DEF Images
    <3>2. marked = [a EXCEPT !.expected_term_offset = expected]
      <4>1. a.active_term_id = rotated.active_term_id  BY <1>7, SMTT(40) DEF Images
      <4> QED  BY <3>1, <4>1, Zenon DEF Marked
    <3>3. Whole(consumed) /\ Whole(expected)  BY <1>3, <1>7, WholeMax
    <3> HIDE DEF o, e, consumed, expected
    <3>4. /\ a.consumption_term_offset = consumed
          /\ DOMAIN a = {"active", "active_term_id", "expected_term_offset",
                         "consumption_term_id", "consumption_term_offset"}
      BY <1>7 DEF Images
    <3> HIDE DEF a, marked
    <3>5. marked.expected_term_offset = expected /\ marked.consumption_term_offset = consumed
      BY <3>2, <3>4
    <3> QED  BY <3>3, <3>5
  <2> HIDE DEF marked
  <2> QED  BY <1>7, <2>1, <2>2, SMTT(40) DEF WholeInv
<1>9. back' \in Seq(WholeBack)
  <2> DEFINE from == compute_position(image.active_term_id, image.expected_term_offset)
             gap == Gap(p)
             nak == Nak(from, gap)
  <2>1. back' = back \/ (back' = Append(back, nak) /\ gap > 0)  BY SMTT(40) DEF OnData
  <2>2. back \in Seq(WholeBack)  BY DEF WholeInv
  <2>3. image.active_term_id \in Nat /\ image.expected_term_offset \in Nat
    BY <1>5, TermLengthAssumption DEF Images
  <2>4. from \in Nat /\ Whole(from)
    <3> DEFINE t == image.active_term_id
               o == image.expected_term_offset
    <3>1. t \in Nat /\ o \in Nat /\ Whole(o)  BY <2>3 DEF WholeInv
    <3>2. from = t * TermLength + o  BY DEF compute_position
    <3> HIDE DEF t, o, from
    <3>3. Whole(t * TermLength)  BY <3>1, WholeTerms
    <3>4. t * TermLength \in Nat  BY <3>1, TermLengthAssumption
    <3>5. Whole(t * TermLength + o)  BY <3>1, <3>3, WholeSum
    <3> QED  BY <3>1, <3>2, <3>4, <3>5
  <2>5. gap \in Int
    <3>1. OffsetOf(p) \in 0 .. TermLength - 1  BY <1>2, Split
    <3>2. OffsetOf(p) \in Int  BY <3>1, TermLengthAssumption
    <3> QED  BY <2>3, <3>2 DEF Gap
  <2> HIDE DEF from, gap
  <2>6. gap > 0 => nak \in WholeBack
    <3> SUFFICES ASSUME gap > 0 PROVE nak \in WholeBack  OBVIOUS
    <3>1. gap \in Nat  BY <2>5
    <3>2. nak \in Messages /\ nak.pos = from /\ nak.type = "nak"
      BY <2>4, <3>1 DEF Nak, Messages
    <3> QED  BY <2>4, <3>2 DEF WholeBack
  <2> HIDE DEF nak
  <2> QED  BY <2>1, <2>2, <2>6, SMTT(40)
<1> QED  BY <1>1, <1>4, <1>8, <1>9, SMTT(40) DEF WholeInv

\* A Setup places the image at whole frames.
LEMMA OnSetupWhole ==
    ASSUME StreamInv, WholeInv, NEW i \in DOMAIN forward, OnSetup(i)
    PROVE  WholeInv'
<1> DEFINE p == forward[i].pos
           t == TermOf(p)
           o == OffsetOf(p)
<1>1. /\ pub_position' = pub_position /\ sender' = sender /\ scheduled' = scheduled
      /\ back' = back /\ forward' = Without(forward, i)
  BY DEF OnSetup, handler
<1>2. p \in Nat /\ Whole(p)
  <2>1. forward[i] \in WholeForward  BY DEF WholeInv
  <2> QED  BY <2>1 DEF WholeForward, Messages
<1>3. Whole(o)  BY <1>2, WholeOffset, SMTT(40)
<1>4. \/ image' = image
      \/ image' = [active |-> TRUE, active_term_id |-> t, expected_term_offset |-> o,
                   consumption_term_id |-> t, consumption_term_offset |-> o]
  BY SMTT(40) DEF OnSetup
<1> HIDE DEF t, o
<1>5. Whole(image'.expected_term_offset) /\ Whole(image'.consumption_term_offset)
  BY <1>3, <1>4 DEF WholeInv
<1>6. forward' \in Seq(WholeForward)  BY <1>1, Removed, SMTT(40) DEF WholeInv
<1> QED  BY <1>1, <1>5, <1>6, SMTT(40) DEF WholeInv

\* A status message grants whole frames when the window holds them.
LEMMA SendSmWhole ==
    ASSUME StreamInv, WholeInv, SendSm, Whole(ReceiverWindow)
    PROVE  WholeInv'
<1> DEFINE c == Consumption
           t == image.consumption_term_id
           o == image.consumption_term_offset
<1>1. /\ pub_position' = pub_position /\ sender' = sender /\ scheduled' = scheduled
      /\ forward' = forward /\ image' = image /\ back' = Append(back, Sm(c))
  BY DEF SendSm, handler
<1>2. c \in Nat /\ ReceiverWindow \in Nat  BY ConsumptionIsNat, StreamAssumption DEF StreamInv
<1>3. t \in Int /\ Whole(o) /\ c = t * TermLength + o
  BY DEF StreamInv, ImageInv, Images, WholeInv, Consumption, compute_position
<1> HIDE DEF c, t, o
<1>4. Whole(c)  BY <1>3, WholeTerms, WholeSum
<1>5. Sm(c) \in WholeBack  BY <1>2, <1>4 DEF Sm, WholeBack, Messages
<1>6. back' \in Seq(WholeBack)  BY <1>1, <1>5 DEF WholeInv
<1> QED  BY <1>1, <1>6 DEF WholeInv

\* Every step keeps whole frames whole.
LEMMA NextWhole ==
    ASSUME Whole(ReceiverWindow)
    PROVE  StreamInv /\ WholeInv /\ [Next]_vars => WholeInv'
<1> SUFFICES ASSUME StreamInv, WholeInv, [Next]_vars PROVE WholeInv'  OBVIOUS
<1>0. /\ forward \in Seq(WholeForward) /\ back \in Seq(WholeBack)
      /\ sender \in [position : Nat, limit : Nat, needs_setup : BOOLEAN, send_free : Nat]
  BY DEF WholeInv, StreamInv
<1>1. CASE Offer
  <2>1. Whole(pub_position + FrameLength)  BY WholeOne, WholeSum DEF WholeInv
  <2>2. /\ pub_position' = pub_position + FrameLength /\ sender' = sender
        /\ scheduled' = scheduled /\ forward' = forward /\ back' = back /\ image' = image
    BY <1>1 DEF Offer, handler
  <2> QED  BY <2>1, <2>2 DEF WholeInv
<1>2. ASSUME NEW setup_due \in BOOLEAN, NEW others \in 0 .. MaxHousekeeping,
             DoSend(setup_due, others)
      PROVE  WholeInv'
  <2>1. others \in Nat  BY StreamAssumption
  <2> QED  BY <1>2, <2>1, DoSendWhole
<1>3. CASE Reap
  <2>1. sender'.position = sender.position /\ sender'.limit = sender.limit
    BY <1>0, <1>3 DEF Reap
  <2>2. /\ pub_position' = pub_position /\ scheduled' = scheduled /\ forward' = forward
        /\ back' = back /\ image' = image
    BY <1>3 DEF Reap, handler
  <2> QED  BY <2>1, <2>2 DEF WholeInv
<1>4. ASSUME NEW i \in DOMAIN back, OnNak(i) PROVE WholeInv'
  <2>1. back' \in Seq(WholeBack)  BY <1>0, <1>4, Removed DEF OnNak
  <2>2. Whole(back[i].pos)  BY <1>0 DEF WholeBack
  <2>3. scheduled' = scheduled \/ scheduled' = scheduled \cup {back[i]}  BY <1>4 DEF OnNak
  <2>4. \A n \in scheduled' : Whole(n.pos)  BY <2>2, <2>3 DEF WholeInv
  <2>5. pub_position' = pub_position /\ sender' = sender /\ forward' = forward /\ image' = image
    BY <1>4 DEF OnNak
  <2> QED  BY <2>1, <2>4, <2>5, SMTT(40) DEF WholeInv
<1>5. ASSUME NEW p \in lingering, LingerOver(p) PROVE WholeInv'
  BY <1>5 DEF LingerOver, WholeInv
<1>6. CASE Lose
  <2>1. forward' \in Seq(WholeForward) /\ back' \in Seq(WholeBack)
    <3>1. CASE (\E i \in DOMAIN forward : forward' = Without(forward, i)) /\ back' = back
      BY <1>0, <3>1, Removed
    <3>2. CASE (\E i \in DOMAIN back : back' = Without(back, i)) /\ forward' = forward
      BY <1>0, <3>2, Removed
    <3> QED  BY <1>6, <3>1, <3>2 DEF Lose
  <2>2. pub_position' = pub_position /\ sender' = sender /\ scheduled' = scheduled /\ image' = image
    BY <1>6 DEF Lose, handler
  <2> QED  BY <2>1, <2>2 DEF WholeInv
<1>7. CASE UNCHANGED vars  BY <1>7 DEF vars, WholeInv
<1>8. CASE Sender
  BY <1>2, <1>3, <1>4, <1>5, <1>8, OnSmWhole, RetransmitWhole DEF Sender
<1>9. CASE Receiver
  BY <1>9, OnDataWhole, OnSetupWhole, SendSmWhole DEF Receiver
<1> QED  BY <1>1, <1>6, <1>7, <1>8, <1>9 DEF Next

(***************************************************************************)
(* When the receiver's window holds a whole number of frames, the sender   *)
(* never passes its limit, although do_send ends a scan with a whole frame *)
(* and tests the limit only before it.                                     *)
(***************************************************************************)
THEOREM SenderWithinLimit ==
    ASSUME ReceiverWindow % FrameLength = 0
    PROVE  Spec => []WithinLimit
<1>1. Whole(ReceiverWindow)
  <2> DEFINE q == ReceiverWindow \div FrameLength
  <2>1. ReceiverWindow \in Int /\ FrameLength \in Nat \ {0}  BY StreamAssumption
  <2>2. q \in Int /\ ReceiverWindow = q * FrameLength + (ReceiverWindow % FrameLength)
    BY <2>1, Division, Zenon
  <2> HIDE DEF q
  <2>3. q * FrameLength \in Int  BY <2>1, <2>2
  <2>4. ReceiverWindow = q * FrameLength  BY <2>2, <2>3
  <2> QED  BY <2>2, <2>4 DEF Whole
<1>2. Init => WholeInv
  <2> SUFFICES ASSUME Init PROVE WholeInv  OBVIOUS
  <2>1. 1 \in Int /\ TermLength = 1 * TermLength  BY TermLengthAssumption
  <2>2. Whole(TermLength) /\ Whole(0)  BY <2>1, WholeTerms, WholeOne, SMTT(40)
  <2>3. /\ pub_position = 0 /\ sender.position = 0 /\ sender.limit = TermLength
        /\ image.expected_term_offset = 0 /\ image.consumption_term_offset = 0
        /\ forward = <<>> /\ back = <<>> /\ scheduled = {}
    BY DEF Init, NoImage
  <2> QED  BY <2>2, <2>3 DEF WholeInv
<1>3. Init => SentBelow
  BY StreamAssumption, TermLengthAssumption DEF Init, SentBelow
<1>4. StreamInv /\ WholeInv /\ [Next]_vars => WholeInv'  BY <1>1, NextWhole
<1>5. SentBelow /\ WholeInv => WithinLimit  BY WholeBelow DEF SentBelow, WholeInv, WithinLimit
<1> QED  BY <1>2, <1>3, <1>4, <1>5, InitStream, NextStream, NextSentBelow, PTL DEF Spec
=============================================================================
