------------------------- MODULE ControlStreamProofs -------------------------
(***************************************************************************)
(* Theorems of module ControlStream, for bytes of any size, any limit of a *)
(* message's length, any buffer and any reports: nothing that a peer sends *)
(* whole is refused, and the stream implements the link that its users     *)
(* rely on.                                                                *)
(***************************************************************************)
EXTENDS ControlStreamInvariant, SequenceTheorems, TLAPS

-----------------------------------------------------------------------------
(* Lengths in two bytes.                                                   *)

\* Division with remainder.
LEMMA Division ==
  ASSUME NEW n \in Nat, NEW b \in Nat \ {0}
  PROVE  /\ n \div b \in Nat /\ n % b \in 0 .. b - 1
         /\ n = (n \div b) * b + (n % b)
OBVIOUS

\* The first byte of a length is not larger than that of the largest.
LEMMA DivisionIsMonotonic ==
  ASSUME NEW n \in Nat, NEW m \in Nat, NEW b \in Nat \ {0}, n <= m
  PROVE  n \div b <= m \div b
<1> DEFINE p == n \div b
           q == m \div b
<1>1. /\ p \in Nat /\ q \in Nat
      /\ \E r \in 0 .. b - 1 : n = p * b + r
      /\ \E r \in 0 .. b - 1 : m = q * b + r
  BY Division
<1> HIDE DEF p, q
<1>2. ASSUME p >= q + 1 PROVE FALSE
  <2>1. p * b >= (q + 1) * b
    BY <1>1, <1>2
  <2>2. (q + 1) * b = q * b + b
    BY <1>1
  <2>3. p * b \in Nat /\ q * b \in Nat
    BY <1>1
  <2>4. QED
    BY <1>1, <2>1, <2>2, <2>3
<1>3. p <= q
  BY <1>1, <1>2
<1>4. QED
  BY <1>3 DEF p, q

\* A length whose first byte is larger is too long.
LEMMA LargerIsTooLong ==
  ASSUME NEW m \in Nat, NEW b \in Nat \ {0}, NEW c \in Nat, NEW d \in Nat,
         c > m \div b
  PROVE  c * b + d > m
<1> DEFINE q == m \div b
<1>1. q \in Nat /\ \E r \in 0 .. b - 1 : m = q * b + r
  BY Division
<1>2. c >= q + 1
  BY <1>1
<1> HIDE DEF q
<1>3. c * b >= (q + 1) * b
  BY <1>1, <1>2
<1>4. (q + 1) * b = q * b + b /\ c * b \in Nat /\ q * b \in Nat
  BY <1>1
<1>5. QED
  BY <1>1, <1>3, <1>4

\* Two bytes make a natural number.
LEMMA InNumbers ==
  ASSUME NEW a \in Nat, NEW b \in Nat, NEW c \in Nat
  PROVE  a * b + c \in Nat
OBVIOUS

-----------------------------------------------------------------------------
(* Messages and their bytes.                                               *)

\* A report of n bytes.
LEMMA ReportBytes ==
  ASSUME NEW n \in Nat
  PROVE  /\ Report(n) \in Seq(Nat) /\ Len(Report(n)) = n
         /\ \A i \in 1 .. n : Report(n)[i] = Letter
BY WordsAssumption DEF Report

\* A message has a length that fits in two bytes, and its text is larger than the
\* first of them.
LEMMA MessageBytes ==
  ASSUME NEW m \in Messages
  PROVE  /\ m \in Seq(Nat) /\ Len(m) \in 1 .. max_message_size
         /\ \A i \in 1 .. Len(m) : m[i] > max_message_size \div Base
<1>1. CASE m \in Shutdowns
  <2>1. m \in Seq(Nat)
    <3>1. Prefix \in Seq(Nat) /\ Graceful \in Seq(Nat) /\ Forceful \in Seq(Nat)
      BY WordsAssumption
    <3>2. Prefix \o Graceful \in Seq(Nat) /\ Prefix \o Forceful \in Seq(Nat)
      BY <3>1, ConcatProperties
    <3>3. QED
      BY <1>1, <3>2 DEF Shutdowns
  <2>2. Len(m) \in Nat /\ max_message_size \in Nat
    BY <2>1, BytesAssumption
  <2>3. Len(m) <= max_message_size
    BY <1>1, WordsAssumption
  <2>4. PICK i \in 2 .. Len(m) : m[i] # Letter
    BY <1>1, WordsAssumption
  <2>5. 1 <= Len(m)
    BY <2>2, <2>4
  <2>6. Len(m) \in 1 .. max_message_size
    BY <2>2, <2>3, <2>5
  <2>7. QED
    BY <2>1, <2>6, TextAssumption
<1>2. CASE m \notin Shutdowns
  <2>1. PICK n \in ReportSizes : n <= max_message_size /\ m = Report(n)
    BY <1>2 DEF Messages
  <2>2. n \in Nat \ {0, 1}
    BY ReportAssumption
  <2>3. QED
    BY <2>1, <2>2, ReportBytes, TextAssumption
<1>3. QED
  BY <1>1, <1>2

\* What goes into the socket for a message.
LEMMA FrameBytes ==
  ASSUME NEW m \in Messages
  PROVE  /\ Frame(m) \in Seq(Nat) /\ Len(Frame(m)) = Len(m) + 2
         /\ Frame(m)[1] * Base + Frame(m)[2] = Len(m)
         /\ Frame(m)[1] <= max_message_size \div Base
         /\ \A i \in 1 .. Len(m) : Frame(m)[i + 2] = m[i]
<1> DEFINE high == Len(m) \div Base
           low == Len(m) % Base
           size == <<high, low>>
<1>1. /\ m \in Seq(Nat) /\ Len(m) \in Nat /\ Len(m) <= max_message_size
      /\ Base \in Nat \ {0} /\ max_message_size \in Nat
  <2>1. max_message_size \in Nat /\ Base \in Nat \ {0}
    BY BytesAssumption
  <2>2. m \in Seq(Nat) /\ Len(m) \in 1 .. max_message_size
    BY MessageBytes
  <2>3. QED
    BY <2>1, <2>2
<1>2. /\ high \in Nat /\ low \in Nat
      /\ Len(m) = high * Base + low
      /\ high <= max_message_size \div Base
  <2>1. high \in Nat /\ low \in 0 .. Base - 1 /\ Len(m) = high * Base + low
    BY <1>1, Division
  <2>2. high <= max_message_size \div Base
    BY <1>1, DivisionIsMonotonic
  <2>3. QED
    BY <1>1, <2>1, <2>2
<1> HIDE DEF high, low
<1>3. /\ size \in Seq(Nat) /\ Len(size) = 2
      /\ size[1] = high /\ size[2] = low
  BY <1>2
<1> HIDE DEF size
<1>4. /\ size \o m \in Seq(Nat) /\ Len(size \o m) = 2 + Len(m)
      /\ \A i \in 1 .. 2 + Len(m) :
           (size \o m)[i] = IF i <= 2 THEN size[i] ELSE m[i - 2]
  <2>1. /\ size \o m \in Seq(Nat) /\ Len(size \o m) = Len(size) + Len(m)
        /\ \A i \in 1 .. Len(size) + Len(m) :
             (size \o m)[i] = IF i <= Len(size) THEN size[i] ELSE m[i - Len(size)]
    BY <1>1, <1>3, ConcatProperties
  <2>2. QED
    BY <1>3, <2>1
<1>5. (size \o m)[1] = size[1] /\ (size \o m)[2] = size[2]
  <2>1. 1 \in 1 .. 2 + Len(m) /\ 2 \in 1 .. 2 + Len(m)
    BY <1>1
  <2>2. QED
    BY <1>4, <2>1
<1>6. ASSUME NEW i \in 1 .. Len(m) PROVE (size \o m)[i + 2] = m[i]
  <2>1. i + 2 \in 1 .. 2 + Len(m) /\ ~(i + 2 <= 2) /\ i + 2 - 2 = i
    BY <1>1
  <2>2. QED
    BY <1>4, <2>1
<1>7. Frame(m) = size \o m
  BY DEF Frame, size, high, low
<1>8. Len(size \o m) = Len(m) + 2
  BY <1>1, <1>4
<1>9. QED
  BY <1>2, <1>3, <1>4, <1>5, <1>6, <1>7, <1>8

\* What has only letters from its second byte on is no shutdown.
LEMMA LettersAreNoShutdown ==
  ASSUME NEW got \in Seq(Nat), \A i \in 2 .. Len(got) : got[i] = Letter
  PROVE  got \notin Shutdowns
BY WordsAssumption

\* A report does not start like a shutdown.
LEMMA ReportsAreNotRefused ==
  ASSUME NEW m \in Messages, m \notin Shutdowns
  PROVE  ~IsPrefix(Prefix, m)
<1> SUFFICES ASSUME IsPrefix(Prefix, m) PROVE FALSE
  OBVIOUS
<1>1. PICK n \in ReportSizes : m = Report(n)
  BY DEF Messages
<1>2. n \in Nat /\ m \in Seq(Nat) /\ Len(m) = n /\ \A i \in 1 .. n : m[i] = Letter
  BY <1>1, ReportAssumption, ReportBytes
<1>3. Prefix \in Seq(Nat) /\ Len(Prefix) \in Nat
  BY WordsAssumption
<1>4. Len(Prefix) <= n /\ SubSeq(Prefix, 1, Len(Prefix)) = SubSeq(m, 1, Len(Prefix))
  BY <1>2 DEF IsPrefix
<1>5. PICK i \in 1 .. Len(Prefix) : Prefix[i] # Letter
  BY WordsAssumption
<1>6. /\ SubSeq(Prefix, 1, Len(Prefix))[i] = Prefix[i]
      /\ SubSeq(m, 1, Len(Prefix))[i] = m[i]
  BY <1>2, <1>3, <1>4, <1>5
<1>7. QED
  BY <1>2, <1>3, <1>4, <1>5, <1>6

-----------------------------------------------------------------------------
(* Sequences of bytes.                                                     *)

LEMMA NoBytes == <<>> \in Seq(Nat) /\ Len(<<>>) = 0
OBVIOUS

\* A part of a sequence.
LEMMA Part ==
  ASSUME NEW S, NEW s \in Seq(S), NEW i \in Nat, NEW j \in Nat,
         i <= j, j <= Len(s)
  PROVE  /\ SubSeq(s, i + 1, j) \in Seq(S) /\ Len(SubSeq(s, i + 1, j)) = j - i
         /\ \A k \in 1 .. j - i : SubSeq(s, i + 1, j)[k] = s[i + k]
<1> DEFINE part == SubSeq(s, i + 1, j)
<1>1. \A k \in i + 1 .. j : s[k] \in S
  OBVIOUS
<1>2. PICK m \in Nat : m = i + 1
  OBVIOUS
<1>3. /\ SubSeq(s, m, j) \in Seq(S)
      /\ Len(SubSeq(s, m, j)) = IF m <= j THEN j - m + 1 ELSE 0
      /\ \A k \in 1 .. j - m + 1 : SubSeq(s, m, j)[k] = s[m + k - 1]
  BY <1>1, <1>2, SubSeqProperties
<1>4. part = SubSeq(s, m, j)
  BY <1>2
<1> HIDE DEF part
<1>5. part \in Seq(S) /\ Len(part) = IF m <= j THEN j - m + 1 ELSE 0
  BY <1>3, <1>4
<1>6. \A k \in 1 .. j - m + 1 : part[k] = s[m + k - 1]
  BY <1>3, <1>4
<1>7. Len(part) = j - i
  BY <1>2, <1>5
<1>8. ASSUME NEW k \in 1 .. j - i PROVE part[k] = s[i + k]
  <2>1. k \in 1 .. j - m + 1 /\ m + k - 1 = i + k
    BY <1>2
  <2>2. QED
    BY <1>6, <2>1
<1>9. QED
  BY <1>5, <1>7, <1>8 DEF part

\* The first n elements of a sequence, and the others.
LEMMA Divided ==
  ASSUME NEW s \in Seq(Nat), NEW n \in 0 .. Len(s)
  PROVE  /\ SubSeq(s, 1, n) \in Seq(Nat) /\ Len(SubSeq(s, 1, n)) = n
         /\ \A i \in 1 .. n : SubSeq(s, 1, n)[i] = s[i]
         /\ SubSeq(s, n + 1, Len(s)) \in Seq(Nat)
         /\ Len(SubSeq(s, n + 1, Len(s))) = Len(s) - n
         /\ \A i \in 1 .. Len(s) - n : SubSeq(s, n + 1, Len(s))[i] = s[n + i]
<1> DEFINE front == SubSeq(s, 1, n)
<1>1. PICK l \in Nat : l = Len(s)
  OBVIOUS
<1>2. n \in Nat /\ n <= l
  BY <1>1
<1>3. /\ SubSeq(s, 0 + 1, n) \in Seq(Nat) /\ Len(SubSeq(s, 0 + 1, n)) = n - 0
      /\ \A k \in 1 .. n - 0 : SubSeq(s, 0 + 1, n)[k] = s[0 + k]
  BY <1>1, <1>2, Part
<1>4. /\ SubSeq(s, n + 1, l) \in Seq(Nat) /\ Len(SubSeq(s, n + 1, l)) = l - n
      /\ \A k \in 1 .. l - n : SubSeq(s, n + 1, l)[k] = s[n + k]
  BY <1>1, <1>2, Part
<1>5. 0 + 1 = 1 /\ n - 0 = n /\ \A k \in 1 .. n : 0 + k = k
  BY <1>2
<1>6. front = SubSeq(s, 0 + 1, n)
  BY <1>5
<1> HIDE DEF front
<1>7. front \in Seq(Nat) /\ Len(front) = n /\ \A i \in 1 .. n : front[i] = s[i]
  BY <1>3, <1>5, <1>6
<1>8. QED
  BY <1>1, <1>4, <1>7 DEF front

\* Two sequences of the same length and the same elements.
LEMMA SameBytes ==
  ASSUME NEW s \in Seq(Nat), NEW r \in Seq(Nat), Len(s) = Len(r),
         \A i \in 1 .. Len(r) : s[i] = r[i]
  PROVE  s = r
OBVIOUS

\* n bytes move from the front of b to the end of a: what both become.
Moves(a, b, n, longer, shorter) ==
  /\ longer = a \o SubSeq(b, 1, n)
  /\ shorter = SubSeq(b, n + 1, Len(b))

\* When b follows a in the stream, that moves the place between them.
LEMMA MovedBytes ==
  ASSUME NEW a \in Seq(Nat), NEW b \in Seq(Nat), NEW n \in 0 .. Len(b),
         NEW bytes, NEW from \in Nat, NEW mid \in Nat,
         mid = from + Len(a), Holds(bytes, from, a), Holds(bytes, mid, b),
         NEW longer, NEW shorter, Moves(a, b, n, longer, shorter)
  PROVE  /\ longer \in Seq(Nat) /\ Len(longer) = Len(a) + n
         /\ shorter \in Seq(Nat) /\ Len(shorter) = Len(b) - n
         /\ mid + n = from + Len(longer)
         /\ Holds(bytes, from, longer)
         /\ Holds(bytes, mid + n, shorter)
<1> DEFINE front == SubSeq(b, 1, n)
<1>1. Len(a) \in Nat /\ Len(b) \in Nat /\ n \in Nat /\ n <= Len(b)
  OBVIOUS
<1>2. /\ front \in Seq(Nat) /\ Len(front) = n
      /\ \A i \in 1 .. n : front[i] = b[i]
      /\ shorter \in Seq(Nat) /\ Len(shorter) = Len(b) - n
      /\ \A i \in 1 .. Len(b) - n : shorter[i] = b[n + i]
  BY Divided DEF Moves
<1>0. longer = a \o front
  BY DEF Moves
<1> HIDE DEF front
<1>3. /\ longer \in Seq(Nat) /\ Len(longer) = Len(a) + Len(front)
      /\ \A i \in 1 .. Len(a) + Len(front) :
           longer[i] = IF i <= Len(a) THEN a[i] ELSE front[i - Len(a)]
  <2>1. /\ a \o front \in Seq(Nat) /\ Len(a \o front) = Len(a) + Len(front)
        /\ \A i \in 1 .. Len(a) + Len(front) :
             (a \o front)[i] = IF i <= Len(a) THEN a[i] ELSE front[i - Len(a)]
    BY <1>2, ConcatProperties
  <2>2. QED
    BY <1>0, <2>1, Zenon
<1>8. Len(longer) = Len(a) + n
  BY <1>2, <1>3
<1>4. ASSUME NEW i \in 1 .. Len(longer) PROVE bytes[from + i] = longer[i]
  <2>1. i \in Nat /\ 1 <= i /\ i <= Len(a) + n
    BY <1>1, <1>8
  <2>2. CASE i <= Len(a)
    <3>1. longer[i] = a[i] /\ i \in 1 .. Len(a)
      BY <1>1, <1>2, <1>3, <2>1, <2>2
    <3>2. QED
      BY <3>1 DEF Holds
  <2>3. CASE i > Len(a)
    <3>1. i - Len(a) \in 1 .. n /\ i - Len(a) \in 1 .. Len(b)
      BY <1>1, <2>1, <2>3
    <3>2. longer[i] = front[i - Len(a)]
      BY <1>1, <1>2, <1>3, <2>1, <2>3
    <3>3. front[i - Len(a)] = b[i - Len(a)]
      BY <1>2, <3>1
    <3>4. bytes[mid + (i - Len(a))] = b[i - Len(a)]
      BY <3>1 DEF Holds
    <3>5. mid + (i - Len(a)) = from + i
      BY <1>1, <2>1
    <3>6. QED
      BY <3>2, <3>3, <3>4, <3>5
  <2>4. QED
    BY <1>1, <2>1, <2>2, <2>3
<1>5. ASSUME NEW i \in 1 .. Len(shorter) PROVE bytes[mid + n + i] = shorter[i]
  <2>1. i \in 1 .. Len(b) - n /\ n + i \in 1 .. Len(b) /\ mid + (n + i) = mid + n + i
    BY <1>1, <1>2
  <2>2. QED
    BY <1>2, <2>1 DEF Holds
<1>6. mid + n = from + Len(longer)
  BY <1>1, <1>2, <1>3
<1>7. QED
  BY <1>2, <1>3, <1>4, <1>5, <1>6 DEF Holds

-----------------------------------------------------------------------------
(* What the receiver finds.                                                *)

\* The length and the text of a message in the stream.
LEMMA MessageAt ==
  ASSUME NEW m \in Messages, NEW bytes \in Places, NEW at \in Nat,
         Holds(bytes, at, Frame(m))
  PROVE  /\ bytes[at + 1] * Base + bytes[at + 2] = Len(m)
         /\ bytes[at + 1] <= max_message_size \div Base
         /\ \A i \in 1 .. Len(m) : bytes[at + 2 + i] = m[i]
<1> DEFINE frame == Frame(m)
<1>1. m \in Seq(Nat) /\ Len(m) \in Nat
  <2>1. m \in Seq(Nat)
    BY MessageBytes
  <2>2. QED
    BY <2>1
<1>2. /\ Len(frame) = Len(m) + 2
      /\ frame[1] * Base + frame[2] = Len(m)
      /\ frame[1] <= max_message_size \div Base
      /\ \A i \in 1 .. Len(m) : frame[i + 2] = m[i]
  BY FrameBytes
<1>3. \A i \in 1 .. Len(frame) : bytes[at + i] = frame[i]
  BY DEF Holds
<1> HIDE DEF frame
<1>4. bytes[at + 1] = frame[1] /\ bytes[at + 2] = frame[2]
  <2>1. 1 \in 1 .. Len(frame) /\ 2 \in 1 .. Len(frame)
    BY <1>1, <1>2
  <2>2. QED
    BY <1>3, <2>1
<1>5. ASSUME NEW i \in 1 .. Len(m) PROVE bytes[at + 2 + i] = m[i]
  <2>1. i + 2 \in 1 .. Len(frame) /\ at + (i + 2) = at + 2 + i
    BY <1>1, <1>2
  <2>2. bytes[at + (i + 2)] = frame[i + 2]
    BY <1>3, <2>1
  <2>3. QED
    BY <1>2, <2>1, <2>2
<1>6. QED
  BY <1>2, <1>4, <1>5

\* Numbers of messages, and the places where they start.
LEMMA Counts ==
  ASSUME HistoryInv, NEW start \in Places
  PROVE  /\ Len(posted) \in Nat /\ Len(delivered) \in Nat
         /\ PostedEnd(start) \in Nat
         /\ \A k \in Nat : start[k] \in Nat
<1>1. Len(posted) \in Nat /\ Len(delivered) \in Nat
  BY DEF HistoryInv
<1>2. \A k \in Nat : start[k] \in Nat
  BY DEF Places
<1>3. Len(posted) + 1 \in Nat
  BY <1>1
<1>4. QED
  BY <1>1, <1>2, <1>3 DEF PostedEnd

\* What is there of a message that was cut.
LEMMA CutBytes ==
  ASSUME NEW m \in Messages, NEW bytes \in Places, NEW at \in Nat,
         NEW p \in 1 .. Len(m) + 1, Holds(bytes, at, SubSeq(Frame(m), 1, p))
  PROVE  \A i \in 1 .. p : bytes[at + i] = Frame(m)[i]
<1> DEFINE frame == Frame(m)
<1>1. m \in Seq(Nat)
  BY MessageBytes
<1>2. Len(m) \in Nat
  BY <1>1
<1>3. frame \in Seq(Nat) /\ Len(frame) = Len(m) + 2
  BY FrameBytes
<1>4. Holds(bytes, at, SubSeq(frame, 1, p))
  OBVIOUS
<1> HIDE DEF frame
<1>5. p \in 0 .. Len(frame)
  BY <1>2, <1>3
<1>6. Len(SubSeq(frame, 1, p)) = p /\ \A i \in 1 .. p : SubSeq(frame, 1, p)[i] = frame[i]
  BY <1>3, <1>5, Divided
<1>7. \A i \in 1 .. p : bytes[at + i] = frame[i]
  BY <1>4, <1>6 DEF Holds
<1>8. QED
  BY <1>7 DEF frame

\* If some of its text is there, that is too large for a length.
LEMMA CutText ==
  ASSUME NEW m \in Messages, NEW bytes \in Places, NEW at \in Nat,
         NEW p \in 1 .. Len(m) + 1, p > 2, Holds(bytes, at, SubSeq(Frame(m), 1, p))
  PROVE  bytes[at + 3] > max_message_size \div Base
<1>1. m \in Seq(Nat) /\ \A i \in 1 .. Len(m) : m[i] > max_message_size \div Base
  BY MessageBytes
<1>2. Len(m) \in Nat /\ p \in Nat /\ p <= Len(m) + 1
  BY <1>1
<1>3. bytes[at + 3] = Frame(m)[3]
  <2>1. 3 \in 1 .. p
    BY <1>2
  <2>2. QED
    BY <2>1, CutBytes
<1>4. Frame(m)[3] = m[1] /\ 1 \in 1 .. Len(m)
  <2>1. 1 \in 1 .. Len(m) /\ 1 + 2 = 3
    BY <1>2
  <2>2. Frame(m)[1 + 2] = m[1]
    BY <2>1, FrameBytes
  <2>3. QED
    BY <2>1, <2>2
<1>5. QED
  BY <1>1, <1>3, <1>4

\* A receiver that is at the next message and has got a byte of it finds a
\* message there, whole or still being sent, unless one was cut there.
LEMMA MessageHere ==
  ASSUME NEW bytes \in Places, NEW start \in Places,
         NEW p \in Nat, NEW at \in Nat, NEW written \in Nat,
         SenderInv, HistoryInv, SentInv(bytes, start, p, written),
         AtMessage(start, at), at < written, Len(delivered) < Len(posted) \/ ~cut
  PROVE  \E m \in Messages :
           /\ Holds(bytes, at, Frame(m))
           /\ \/ /\ Len(delivered) < Len(posted)
                 /\ m = posted[Len(delivered) + 1]
                 /\ start[Len(delivered) + 2] = at + Len(m) + 2
                 /\ at + Len(m) + 2 <= PostedEnd(start)
              \/ /\ Len(delivered) = Len(posted) /\ ~cut
                 /\ written < at + Len(m) + 2
<1> DEFINE d == Len(delivered)
           l == Len(posted)
<1>1. posted \in Seq(Messages) /\ l \in Nat /\ d \in Nat
  BY DEF HistoryInv
<1>2. d <= l /\ at = start[d + 1]
  BY DEF AtMessage
<1> HIDE DEF d
<1>3. CASE d < l
  <2>1. d + 1 \in 1 .. l /\ d + 1 + 1 = d + 2
    BY <1>1, <1>3
  <2>2. posted[d + 1] \in Messages
    BY <1>1, <2>1
  <2>3. /\ start[d + 1 + 1] = start[d + 1] + Len(posted[d + 1]) + 2
        /\ start[d + 1 + 1] <= PostedEnd(start)
        /\ Holds(bytes, start[d + 1], Frame(posted[d + 1]))
    BY <2>1 DEF SentInv
  <2>4. QED
    BY <1>2, <1>3, <2>1, <2>2, <2>3 DEF d
<1>4. CASE d = l
  <2>1. ~cut /\ at = PostedEnd(start) /\ LastStart(start, p) = at
    BY <1>1, <1>2, <1>4 DEF PostedEnd, LastStart, d
  <2>2. sender.rest # <<>>
    BY <2>1 DEF SentInv
  <2>3. /\ Holds(bytes, at, Frame(sender.msg))
        /\ written + Len(sender.rest) = at + Len(sender.msg) + 2
    BY <2>1, <2>2 DEF SentInv
  <2>4. sender.msg \in Messages /\ sender.rest \in Seq(Nat)
    BY <2>2 DEF SenderInv, Senders
  <2>5. Len(sender.rest) \in Nat /\ Len(sender.rest) # 0
    BY <2>2, <2>4, EmptySeq
  <2>6. sender.msg \in Seq(Nat)
    BY <2>4, MessageBytes
  <2>7. Len(sender.msg) \in Nat
    BY <2>6
  <2>8. written < at + Len(sender.msg) + 2
    BY <2>3, <2>5, <2>7
  <2>9. QED
    BY <1>4, <2>1, <2>3, <2>4, <2>8 DEF d
<1>5. QED
  BY <1>1, <1>2, <1>3, <1>4

\* Where a byte lies that was read behind the fragment of a message.
LEMMA BehindFragment ==
  ASSUME NEW at \in Nat, NEW from \in Nat, NEW size \in Nat, NEW n \in Nat,
         NEW written \in Nat, NEW i \in 1 .. size,
         at >= from, at + 2 + size <= written, written <= from + n + 2
  PROVE  (at + i) - from \in 1 .. n /\ from + 2 + ((at + i) - from) = at + 2 + i
OBVIOUS

\* The same when the fragment is a single byte, which was read as well.
LEMMA BehindOneByte ==
  ASSUME NEW at \in Nat, NEW size \in Nat, NEW n \in Nat, NEW written \in Nat,
         NEW i \in 2 .. size, at + 2 + size <= written, written <= at + 1 + n + 2
  PROVE  /\ i - 1 \in 1 .. n /\ at + 1 + 2 + (i - 1) = at + 2 + i
         /\ i \in 1 .. size
OBVIOUS

\* Where the first byte lies that was read behind it.
LEMMA AfterFragment ==
  ASSUME NEW at \in Nat, NEW p \in Nat, NEW size \in Nat, p > 1, p <= size + 1
  PROVE  p - 1 \in 1 .. size /\ at + 2 + (p - 1) = at + p + 1
OBVIOUS

\* What is read from a message that was cut, or behind it, is no shutdown: there is
\* the length of the report in it, or it is made of the letters of the report.
LEMMA JunkText ==
  ASSUME NEW bytes \in Places, NEW start \in Places,
         NEW p \in Nat, NEW at \in Nat, NEW written \in Nat,
         SenderInv, HistoryInv, SentInv(bytes, start, p, written), cut,
         NEW got \in Seq(Nat), Holds(bytes, at + 2, got),
         Len(got) = bytes[at + 1] * Base + bytes[at + 2],
         at + 2 + Len(got) <= written,
         at = PostedEnd(start) \/ at >= PostedEnd(start) + p
  PROVE  got \notin Shutdowns /\ at + 2 + Len(got) >= PostedEnd(start) + p
<1>1. PICK e \in Nat : e = PostedEnd(start)
  BY Counts
<1>2. PICK m \in Messages :
        p \in 1 .. Len(m) + 1 /\ Holds(bytes, e, SubSeq(Frame(m), 1, p))
  BY <1>1 DEF SentInv
<1>3. PICK n \in ReportSizes : sender.msg = Report(n) /\ sender.msg \in Messages
  BY DEF SenderInv
<1>4. PICK report \in Messages : report = sender.msg
  BY <1>3
<1>5. n \in Nat /\ Len(report) = n /\ \A i \in 1 .. n : report[i] = Letter
  BY <1>3, <1>4, ReportAssumption, ReportBytes
<1>6. Holds(bytes, e + p, Frame(report)) /\ written <= e + p + n + 2
  <2>1. LastStart(start, p) = e + p
    BY <1>1 DEF LastStart
  <2>2. /\ Holds(bytes, e + p, Frame(report))
        /\ written + Len(sender.rest) = e + p + n + 2
    BY <1>4, <1>5, <2>1 DEF SentInv
  <2>3. sender.rest \in Seq(Nat)
    BY DEF SenderInv, Senders
  <2>4. Len(sender.rest) \in Nat
    BY <2>3
  <2>5. QED
    BY <1>5, <2>2, <2>4
<1>7. /\ bytes[e + p + 1] <= max_message_size \div Base
      /\ \A i \in 1 .. n : bytes[e + p + 2 + i] = Letter
  <2>1. PICK from \in Nat : from = e + p
    BY <1>1
  <2>2. /\ bytes[from + 1] <= max_message_size \div Base
        /\ \A i \in 1 .. Len(report) : bytes[from + 2 + i] = report[i]
    BY <1>6, <2>1, MessageAt
  <2>3. QED
    BY <1>5, <2>1, <2>2
<1>8. Len(got) \in Nat /\ \A i \in 1 .. Len(got) : got[i] = bytes[at + 2 + i]
  BY DEF Holds
<1>9. Len(m) \in Nat /\ m \in Seq(Nat)
  <2>1. m \in Seq(Nat)
    BY MessageBytes
  <2>2. QED
    BY <2>1
<1>10. CASE at >= e + p
  <2>1. ASSUME NEW i \in 1 .. Len(got) PROVE got[i] = Letter
    <3>1. PICK from \in Nat : from = e + p
      BY <1>1
    <3>2. PICK size \in Nat : size = Len(got)
      BY <1>8
    <3>3. /\ (at + i) - (e + p) \in 1 .. n
          /\ e + p + 2 + ((at + i) - (e + p)) = at + 2 + i
      BY <1>5, <1>6, <1>10, <3>1, <3>2, BehindFragment
    <3>4. QED
      BY <1>7, <1>8, <3>3
  <2>2. got \notin Shutdowns
    <3>1. \A i \in 2 .. Len(got) : i \in 1 .. Len(got)
      BY <1>8
    <3>2. QED
      BY <2>1, <3>1, LettersAreNoShutdown
  <2>3. QED
    BY <1>1, <1>8, <1>10, <2>2
<1>11. CASE at = e /\ p = 1
  <2>1. ASSUME NEW i \in 2 .. Len(got) PROVE got[i] = Letter
    <3>1. PICK size \in Nat : size = Len(got)
      BY <1>8
    <3>2. written <= at + 1 + n + 2
      BY <1>6, <1>11
    <3>3. /\ i - 1 \in 1 .. n /\ at + 1 + 2 + (i - 1) = at + 2 + i
          /\ i \in 1 .. size
      BY <1>5, <3>1, <3>2, BehindOneByte
    <3>4. bytes[at + 1 + 2 + (i - 1)] = Letter
      BY <1>7, <1>11, <3>3
    <3>5. QED
      BY <1>8, <3>1, <3>3, <3>4
  <2>2. got \notin Shutdowns
    BY <2>1, LettersAreNoShutdown
  <2>3. QED
    BY <1>1, <1>8, <1>11, <2>2
<1>12. CASE at = e /\ p > 1
  <2>1. Len(got) = Len(m)
    <3>1. \A i \in 1 .. p : bytes[at + i] = Frame(m)[i]
      BY <1>2, <1>12, CutBytes
    <3>2. 1 \in 1 .. p /\ 2 \in 1 .. p
      BY <1>12
    <3>3. bytes[at + 1] = Frame(m)[1] /\ bytes[at + 2] = Frame(m)[2]
      BY <3>1, <3>2
    <3>4. Frame(m)[1] * Base + Frame(m)[2] = Len(m)
      BY FrameBytes
    <3>5. QED
      BY <3>3, <3>4
  <2>2. p <= Len(m) + 1
    BY <1>2, <1>9
  <2>3. got[p - 1] = bytes[e + p + 1] /\ p - 1 \in 1 .. Len(got)
    <3>1. p - 1 \in 1 .. Len(got) /\ at + 2 + (p - 1) = at + p + 1
      BY <1>9, <1>12, <2>1, <2>2, AfterFragment
    <3>2. QED
      BY <1>8, <1>12, <3>1
  <2>4. got \notin Shutdowns
    <3>1. SUFFICES ASSUME got \in Messages PROVE FALSE
      BY DEF Messages
    <3>2. got[p - 1] > max_message_size \div Base
      BY <2>3, <3>1, MessageBytes
    <3>3. got[p - 1] \in Nat /\ max_message_size \div Base \in Int
      <4>1. max_message_size \in Nat /\ Base \in Nat \ {0}
        BY BytesAssumption
      <4>2. max_message_size \div Base \in Nat
        BY <4>1, Division
      <4>3. \A i \in 1 .. Len(got) : got[i] \in Nat
        OBVIOUS
      <4>4. got[p - 1] \in Nat
        BY <2>3, <4>3
      <4>5. QED
        BY <4>2, <4>4
    <3>4. got[p - 1] <= max_message_size \div Base
      BY <1>7, <2>3
    <3>5. QED
      BY <3>2, <3>3, <3>4
  <2>5. PICK size \in Nat : size = Len(got)
    BY <1>8
  <2>6. at + 2 + size >= e + p
    BY <1>12, <2>1, <2>2, <2>5
  <2>7. QED
    BY <1>1, <2>4, <2>5, <2>6
<1>13. p >= 1
  BY <1>2, <1>9
<1>14. QED
  BY <1>1, <1>10, <1>11, <1>12, <1>13

\* When a text is complete, it is that of the next message, or it is junk.
LEMMA PayloadHere ==
  ASSUME NEW bytes \in Places, NEW start \in Places,
         NEW p \in Nat, NEW at \in Nat, NEW read \in Nat, NEW written \in Nat,
         SenderInv, HistoryInv, WireInv(bytes, start, p, at, read, written),
         receiver.pc = "payload", HasRead,
         NEW got \in Seq(Nat), got = receiver.got
  PROVE  \/ /\ ~late /\ Len(delivered) < Len(posted)
            /\ got = posted[Len(delivered) + 1]
            /\ start[Len(delivered) + 2] = read
         \/ /\ cut /\ Len(delivered) >= Len(posted)
            /\ got \notin Shutdowns
            /\ read >= PostedEnd(start) + p
<1>1. /\ Len(got) = bytes[at + 1] * Base + bytes[at + 2]
      /\ read = at + 2 + Len(got) /\ Holds(bytes, at + 2, got)
  BY DEF HasRead, Wanted, WireInv, ReadInv
<1>2. SentInv(bytes, start, p, written) /\ PlaceInv(bytes, start, p, at)
  BY DEF WireInv
<1>3. read <= written
  <2>1. written = read + Len(stream) /\ stream \in Seq(Nat)
    BY DEF WireInv, StreamInv
  <2>2. Len(stream) \in Nat
    BY <2>1
  <2>3. QED
    BY <2>1, <2>2
<1>4. Len(got) \in Nat /\ \A i \in 1 .. Len(got) : bytes[at + 2 + i] = got[i]
  BY <1>1 DEF Holds
<1>5. at < written
  BY <1>1, <1>3, <1>4
<1>6. /\ Len(posted) \in Nat /\ Len(delivered) \in Nat
      /\ PostedEnd(start) \in Nat
  BY Counts
<1>7. CASE AtMessage(start, at) /\ (Len(delivered) < Len(posted) \/ ~cut)
  <2>1. PICK m \in Messages :
          /\ Holds(bytes, at, Frame(m))
          /\ \/ /\ Len(delivered) < Len(posted)
                /\ m = posted[Len(delivered) + 1]
                /\ start[Len(delivered) + 2] = at + Len(m) + 2
             \/ written < at + Len(m) + 2
    BY <1>2, <1>5, <1>7, MessageHere
  <2>2. Len(got) = Len(m) /\ \A i \in 1 .. Len(m) : bytes[at + 2 + i] = m[i]
    BY <1>1, <2>1, MessageAt
  <2>3. m \in Seq(Nat)
    BY MessageBytes
  <2>4. got = m
    BY <1>4, <2>2, <2>3, SameBytes
  <2>5. ~(written < at + Len(m) + 2) /\ read = at + Len(m) + 2
    BY <1>1, <1>3, <1>4, <2>2
  <2>6. QED
    BY <1>7, <2>1, <2>4, <2>5 DEF AtMessage
<1>8. CASE AtMessage(start, at) /\ ~(Len(delivered) < Len(posted)) /\ cut
  <2>1. at = PostedEnd(start) /\ Len(delivered) >= Len(posted)
    BY <1>6, <1>8 DEF AtMessage, PostedEnd
  <2>2. QED
    BY <1>1, <1>2, <1>3, <1>8, <2>1, JunkText
<1>9. CASE AtJunk(start, p, at)
  <2>1. cut /\ at >= PostedEnd(start) + p /\ Len(delivered) >= Len(posted)
    BY <1>9 DEF AtJunk
  <2>2. QED
    BY <1>1, <1>2, <1>3, <2>1, JunkText
<1>10. QED
  BY <1>2, <1>7, <1>8, <1>9 DEF PlaceInv, AtText

-----------------------------------------------------------------------------
(* Every step keeps the invariant.                                         *)

LEMMA InitControl == Init => ControlInv
<1> SUFFICES ASSUME Init PROVE ControlInv
  OBVIOUS
<1> DEFINE none == [n \in Nat |-> 0]
<1>1. SenderInv /\ HistoryInv /\ RefusesOnlyJunk
  <2>1. SenderInv
    BY DEF Init, SenderInv, Sending, Senders
  <2>2. HistoryInv
    <3>1. <<>> \in Seq(Messages)
      OBVIOUS
    <3>2. <<>> \in Seq(Seq(Nat))
      OBVIOUS
    <3>3. QED
      BY <3>1, <3>2, Zenon DEF Init, HistoryInv
  <2>3. RefusesOnlyJunk
    BY DEF Init, RefusesOnlyJunk
  <2>4. QED
    BY <2>1, <2>2, <2>3
<1>2. max_message_size \in Nat
  BY BytesAssumption
<1>3. WireInv(none, none, 0, 0, 0, 0)
  <2>1. SentInv(none, none, 0, 0)
    <3>1. /\ posted = <<>> /\ cut = FALSE /\ sender.rest = <<>>
          /\ Len(posted) = 0 /\ Len(sender.rest) = 0
      BY DEF Init
    <3>2. PostedEnd(none) = 0
      BY <3>1 DEF PostedEnd
    <3> HIDE DEF none
    <3>3. QED
      BY <3>1, <3>2 DEF SentInv, Holds
  <2>0. StreamInv(none, 0, 0)
    BY DEF Init, StreamInv, Holds
  <2>2. ReadInv(none, 0, 0)
    BY <1>2 DEF Init, ReadInv, Receivers, Holds
  <2>3. PlaceInv(none, none, 0, 0)
    BY DEF Init, PlaceInv, AtMessage
  <2>4. QED
    BY <2>0, <2>1, <2>2, <2>3 DEF WireInv
<1>4. none \in Places /\ 0 \in Nat
  BY DEF Places
<1>5. QED
  BY <1>1, <1>3, <1>4 DEF ControlInv

\* The receiver closes the link.
LEMMA ReceiverCloses ==
  ASSUME ControlInv, UNCHANGED <<platform, sender, stream, history>>,
         NEW why \in {"end of file", "time out", "too long", "invalid", "left"},
         CloseLink(why), why \in {"too long", "invalid"} => cut \/ late
  PROVE  ControlInv'
<1>1. PICK bytes, start \in Places :
        \E p, at, read, written \in Nat : WireInv(bytes, start, p, at, read, written)
  BY DEF ControlInv
<1>2. PICK p, at, read, written \in Nat : WireInv(bytes, start, p, at, read, written)
  BY <1>1
<1> DEFINE empty == <<>>
<1>3. receiver' = [receiver EXCEPT !.pc = "closed", !.got = empty, !.why = why]
  BY DEF CloseLink
<1>4. UNCHANGED <<sender, stream, posted, delivered, cut, late>>
  BY DEF history
<1>5. receiver'.pc = "closed" /\ receiver'.why = why /\ receiver' \in Receivers
  <2>1. receiver \in Receivers
    BY <1>2 DEF WireInv, ReadInv
  <2>2. empty \in Seq(Nat)
    BY NoBytes, Zenon
  <2> HIDE DEF empty
  <2>3. QED
    BY <1>3, <2>1, <2>2 DEF Receivers
<1>6. SenderInv' /\ HistoryInv' /\ RefusesOnlyJunk'
  BY <1>4, <1>5 DEF ControlInv, SenderInv, HistoryInv, RefusesOnlyJunk, Sending
<1>7. SentInv(bytes, start, p, written)' /\ StreamInv(bytes, read, written)'
  BY <1>2, <1>4 DEF WireInv, SentInv, StreamInv, PostedEnd, LastStart, Holds
<1>8. ReadInv(bytes, at, read)' /\ PlaceInv(bytes, start, p, at)'
  BY <1>5 DEF ReadInv, PlaceInv
<1>9. QED
  BY <1>6, <1>7, <1>8 DEF ControlInv, WireInv

\* The sender closes its end, or is gone; what it has sent stays in the socket.
LEMMA SenderCloses ==
  ASSUME ControlInv, SenderGone,
         UNCHANGED <<platform, stream, receiver, history>>
  PROVE  ControlInv'
<1>1. PICK bytes, start \in Places :
        \E p, at, read, written \in Nat : WireInv(bytes, start, p, at, read, written)
  BY DEF ControlInv
<1>2. PICK p, at, read, written \in Nat : WireInv(bytes, start, p, at, read, written)
  BY <1>1
<1>3. UNCHANGED <<stream, receiver, posted, delivered, cut, late>>
  BY DEF history
<1>4. /\ sender'.pc = "closed" /\ sender'.msg = sender.msg
      /\ sender'.rest = sender.rest
      /\ sender' \in Senders
  BY DEF SenderGone, ControlInv, SenderInv, Senders
<1>5. SenderInv'
  BY <1>3, <1>4 DEF ControlInv, SenderInv, Sending
<1>6. HistoryInv' /\ RefusesOnlyJunk'
  BY <1>3 DEF ControlInv, HistoryInv, RefusesOnlyJunk
<1>7. SentInv(bytes, start, p, written)' /\ StreamInv(bytes, read, written)'
  <2>1. SentInv(bytes, start, p, written)'
    BY <1>2, <1>3, <1>4 DEF WireInv, SentInv, PostedEnd, LastStart, Holds
  <2>2. StreamInv(bytes, read, written)'
    BY <1>2, <1>3 DEF WireInv, StreamInv
  <2>3. QED
    BY <2>1, <2>2
<1>8. ReadInv(bytes, at, read)' /\ PlaceInv(bytes, start, p, at)'
  BY <1>2, <1>3 DEF WireInv, ReadInv, PlaceInv, AtMessage, AtText, AtJunk, PostedEnd
<1>9. QED
  BY <1>5, <1>6, <1>7, <1>8 DEF ControlInv, WireInv

\* The poll returns: the next message is read from where the last one ended.
LEMMA EventReadKeeps ==
  ASSUME ControlInv, EventRead
  PROVE  ControlInv'
<1>1. PICK bytes, start \in Places :
        \E p, at, read, written \in Nat : WireInv(bytes, start, p, at, read, written)
  BY DEF ControlInv
<1>2. PICK p, at, read, written \in Nat : WireInv(bytes, start, p, at, read, written)
  BY <1>1
<1> DEFINE empty == <<>>
<1>3. /\ receiver.pc = "idle"
      /\ receiver' = [receiver EXCEPT !.pc = "length", !.got = empty]
      /\ UNCHANGED <<sender, stream, posted, delivered, cut, late>>
  BY DEF EventRead, history
<1>4. /\ receiver'.pc = "length" /\ receiver'.got = empty /\ empty \in Seq(Nat)
      /\ Len(empty) = 0 /\ receiver'.why = receiver.why /\ receiver' \in Receivers
  <2>1. receiver \in Receivers
    BY <1>2 DEF WireInv, ReadInv
  <2>2. empty \in Seq(Nat) /\ Len(empty) = 0
    BY NoBytes, Zenon
  <2> HIDE DEF empty
  <2>3. QED
    BY <1>3, <2>1, <2>2 DEF Receivers
<1> HIDE DEF empty
<1>5. SenderInv' /\ HistoryInv' /\ RefusesOnlyJunk'
  BY <1>3, <1>4 DEF ControlInv, SenderInv, HistoryInv, RefusesOnlyJunk, Sending
<1>6. SentInv(bytes, start, p, written)' /\ StreamInv(bytes, read, written)'
  <2>1. SentInv(bytes, start, p, written)'
    BY <1>2, <1>3 DEF WireInv, SentInv, PostedEnd, LastStart, Holds
  <2>2. StreamInv(bytes, read, written)'
    BY <1>2, <1>3 DEF WireInv, StreamInv
  <2>3. QED
    BY <2>1, <2>2
<1>7. ReadInv(bytes, at, read)'
  <2>1. read = at /\ receiver.why = "open"
    BY <1>2, <1>3 DEF WireInv, ReadInv
  <2>2. Holds(bytes, at, receiver'.got)
    BY <1>4 DEF Holds
  <2>3. QED
    BY <1>4, <2>1, <2>2 DEF ReadInv, Holds
<1>8. PlaceInv(bytes, start, p, at)'
  BY <1>2, <1>3, <1>4 DEF WireInv, PlaceInv, AtMessage, AtText, AtJunk, PostedEnd
<1>9. QED
  BY <1>5, <1>6, <1>7, <1>8 DEF ControlInv, WireInv

\* The smaller one of two lengths.
LEMMA SmallerOf ==
  ASSUME NEW a \in Nat, NEW b \in Nat
  PROVE  /\ (IF a < b THEN a ELSE b) \in 0 .. b
         /\ (IF a < b THEN a ELSE b) <= a
OBVIOUS

\* What has to be shown of a step.
LEMMA Kept ==
  ASSUME SenderInv', HistoryInv', RefusesOnlyJunk',
         NEW bytes \in Places, NEW start \in Places,
         NEW p \in Nat, NEW at \in Nat, NEW read \in Nat, NEW written \in Nat,
         SentInv(bytes, start, p, written)', StreamInv(bytes, read, written)',
         ReadInv(bytes, at, read)', PlaceInv(bytes, start, p, at)'
  PROVE  ControlInv'
BY DEF ControlInv, WireInv

\* recv() takes bytes from the front of what lies in the socket.
LEMMA ReadPartKeeps ==
  ASSUME ControlInv, ReadPart
  PROVE  ControlInv'
<1>1. PICK bytes, start \in Places :
        \E p, at, read, written \in Nat : WireInv(bytes, start, p, at, read, written)
  BY DEF ControlInv
<1>2. PICK p, at, read, written \in Nat : WireInv(bytes, start, p, at, read, written)
  BY <1>1
<1> DEFINE missing == Wanted - Len(receiver.got)
           n == IF missing < Len(stream) THEN missing ELSE Len(stream)
           got == receiver.got \o SubSeq(stream, 1, n)
           left == SubSeq(stream, n + 1, Len(stream))
<1>3. /\ receiver.pc \in {"length", "payload"} /\ Len(receiver.got) < Wanted
      /\ receiver' = [receiver EXCEPT !.got = got]
      /\ stream' = left
      /\ UNCHANGED <<sender, posted, delivered, cut, late>>
  BY DEF ReadPart, Reading, history
<1>4. /\ receiver \in Receivers /\ stream \in Seq(Nat)
      /\ receiver.got \in Seq(Nat) /\ receiver.size \in Nat
  <2>1. receiver \in Receivers /\ stream \in Seq(Nat)
    BY <1>2 DEF WireInv, ReadInv, StreamInv
  <2>2. receiver.got \in Seq(Nat) /\ receiver.size \in 0 .. max_message_size
    BY <2>1, Zenon DEF Receivers
  <2>3. QED
    BY <2>1, <2>2
<1>5. /\ Wanted \in Nat /\ Len(receiver.got) \in Nat /\ Len(stream) \in Nat
  <2>1. Len(receiver.got) \in Nat /\ Len(stream) \in Nat
    BY <1>4
  <2>2. Wanted \in Nat
    BY <1>4 DEF Wanted
  <2>3. QED
    BY <2>1, <2>2
<1>6. missing \in Nat /\ Wanted = Len(receiver.got) + missing
  <2>1. Len(receiver.got) < Wanted
    BY <1>3
  <2>2. QED
    BY <1>5, <2>1
<1> HIDE DEF missing
<1>7. n \in 0 .. Len(stream) /\ n <= missing
  BY <1>5, <1>6, SmallerOf
<1> HIDE DEF n
<1>8. Moves(receiver.got, stream, n, got, left)
  BY DEF Moves
<1> HIDE DEF got, left
<1>9. written = read + Len(stream) /\ Holds(bytes, read, stream)
  BY <1>2 DEF WireInv, StreamInv
<1>10. ASSUME NEW from \in Nat, read = from + Len(receiver.got),
              Holds(bytes, from, receiver.got)
       PROVE  /\ got \in Seq(Nat) /\ Len(got) <= Wanted
              /\ left \in Seq(Nat) /\ written = read + n + Len(left)
              /\ read + n = from + Len(got)
              /\ Holds(bytes, from, got)
              /\ Holds(bytes, read + n, left)
  <2>1. /\ got \in Seq(Nat) /\ Len(got) = Len(receiver.got) + n
        /\ left \in Seq(Nat) /\ Len(left) = Len(stream) - n
        /\ read + n = from + Len(got)
        /\ Holds(bytes, from, got)
        /\ Holds(bytes, read + n, left)
    <3>1. PICK had \in Seq(Nat) : had = receiver.got
      BY <1>4
    <3>2. read = from + Len(had) /\ Holds(bytes, from, had)
      BY <1>10, <3>1
    <3>3. Moves(had, stream, n, got, left)
      BY <1>8, <3>1
    <3>4. stream \in Seq(Nat) /\ n \in 0 .. Len(stream)
      BY <1>4, <1>7
    <3>5. /\ got \in Seq(Nat) /\ Len(got) = Len(had) + n
          /\ left \in Seq(Nat) /\ Len(left) = Len(stream) - n
          /\ read + n = from + Len(got)
          /\ Holds(bytes, from, got)
          /\ Holds(bytes, read + n, left)
      BY <1>9, <3>2, <3>3, <3>4, MovedBytes
    <3>6. QED
      BY <3>1, <3>5
  <2>2. written = read + n + Len(left)
    BY <1>5, <1>7, <1>9, <2>1
  <2>3. QED
    BY <1>5, <1>6, <1>7, <2>1, <2>2
<1>11. /\ receiver'.pc = receiver.pc /\ receiver'.got = got
       /\ receiver'.size = receiver.size /\ receiver'.why = receiver.why
  BY <1>3, <1>4 DEF Receivers
<1>12. ASSUME got \in Seq(Nat) PROVE receiver' \in Receivers
  BY <1>3, <1>4, <1>12 DEF Receivers
<1>13. UNCHANGED <<sender, posted, delivered, cut, late>> /\ stream' = left
  BY <1>3
<1>14. SenderInv' /\ HistoryInv' /\ RefusesOnlyJunk'
  BY <1>13, <1>11 DEF ControlInv, SenderInv, HistoryInv, RefusesOnlyJunk, Sending
<1>15. SentInv(bytes, start, p, written)'
  BY <1>2, <1>13 DEF WireInv, SentInv, PostedEnd, LastStart, Holds
<1>16. PlaceInv(bytes, start, p, at)'
  BY <1>2, <1>11, <1>13, <1>3 DEF WireInv, PlaceInv, AtMessage, AtText, AtJunk, PostedEnd
<1>17. PICK next \in Nat : next = read + n
  BY <1>5, <1>7
<1>18. ASSUME left \in Seq(Nat), written = next + Len(left),
              Holds(bytes, next, left)
       PROVE  StreamInv(bytes, next, written)'
  BY <1>13, <1>18 DEF StreamInv, Holds
<1>19. CASE receiver.pc = "length"
  <2>1. /\ read = at + Len(receiver.got) /\ receiver.why = "open"
        /\ Holds(bytes, at, receiver.got)
    BY <1>2, <1>19 DEF WireInv, ReadInv
  <2>2. /\ got \in Seq(Nat) /\ Len(got) <= Wanted /\ Wanted = 2
        /\ left \in Seq(Nat) /\ written = next + Len(left)
        /\ next = at + Len(got) /\ Holds(bytes, at, got)
        /\ Holds(bytes, next, left)
    BY <1>10, <1>17, <1>19, <2>1 DEF Wanted
  <2>3. receiver'.pc = "length" /\ receiver'.why = "open" /\ receiver' \in Receivers
    BY <1>11, <1>12, <1>19, <2>1, <2>2
  <2>4. Holds(bytes, at, receiver.got)'
    BY <1>11, <2>2 DEF Holds
  <2>5. ReadInv(bytes, at, next)'
    BY <1>11, <2>2, <2>3, <2>4 DEF ReadInv
  <2>6. StreamInv(bytes, next, written)'
    BY <1>18, <2>2
  <2>7. QED
    BY <1>14, <1>15, <1>16, <2>5, <2>6, Kept
<1>20. CASE receiver.pc = "payload"
  <2>1. /\ read = at + 2 + Len(receiver.got) /\ receiver.why = "open"
        /\ Holds(bytes, at + 2, receiver.got) /\ at + 2 \in Nat
        /\ receiver.size = bytes[at + 1] * Base + bytes[at + 2]
    BY <1>2, <1>20 DEF WireInv, ReadInv
  <2>2. /\ got \in Seq(Nat) /\ Len(got) <= Wanted /\ Wanted = receiver.size
        /\ left \in Seq(Nat) /\ written = next + Len(left)
        /\ next = at + 2 + Len(got) /\ Holds(bytes, at + 2, got)
        /\ Holds(bytes, next, left)
    BY <1>10, <1>17, <1>20, <2>1 DEF Wanted
  <2>3. receiver'.pc = "payload" /\ receiver'.why = "open" /\ receiver' \in Receivers
    BY <1>11, <1>12, <1>20, <2>1, <2>2
  <2>4. Holds(bytes, at + 2, receiver.got)'
    BY <1>11, <2>2 DEF Holds
  <2>5. ReadInv(bytes, at, next)'
    BY <1>11, <2>1, <2>2, <2>3, <2>4 DEF ReadInv
  <2>6. StreamInv(bytes, next, written)'
    BY <1>18, <2>2
  <2>7. QED
    BY <1>14, <1>15, <1>16, <2>5, <2>6, Kept
<1>21. QED
  BY <1>3, <1>19, <1>20

\* event_read() returns without a byte: if it did so between a length and its
\* text, it will take the text for a length.
LEMMA ReadNothingKeeps ==
  ASSUME ControlInv, ReadNothing
  PROVE  ControlInv'
<1>1. PICK bytes, start \in Places :
        \E p, at, read, written \in Nat : WireInv(bytes, start, p, at, read, written)
  BY DEF ControlInv
<1>2. PICK p, at, read, written \in Nat : WireInv(bytes, start, p, at, read, written)
  BY <1>1
<1>0. SenderInv /\ HistoryInv
  BY DEF ControlInv
<1>3. /\ receiver.pc \in {"length", "payload"} /\ Len(receiver.got) < Wanted
      /\ receiver.got = <<>>
      /\ UNCHANGED <<sender, stream, posted, delivered, cut>>
      /\ late' = (late \/ receiver.pc = "payload")
  BY DEF ReadNothing, Reading
<1>4. /\ receiver'.pc = "idle" /\ receiver'.got = receiver.got
      /\ receiver'.why = receiver.why /\ receiver' \in Receivers
  <2>1. receiver \in Receivers
    BY <1>2 DEF WireInv, ReadInv
  <2>2. receiver' = [receiver EXCEPT !.pc = "idle"]
    BY DEF ReadNothing
  <2>3. QED
    BY <2>1, <2>2 DEF Receivers
<1>5. Len(receiver.got) = 0
  <2>1. receiver.got = <<>>
    BY <1>3
  <2>2. QED
    BY <2>1, NoBytes, Zenon
<1>6. receiver.why = "open" /\ receiver'.why = "open"
  BY <1>2, <1>3, <1>4 DEF WireInv, ReadInv
<1>7. SenderInv'
  BY <1>0, <1>3 DEF SenderInv, Sending
<1>8. HistoryInv'
  BY <1>0, <1>3 DEF HistoryInv
<1>9. RefusesOnlyJunk'
  BY <1>6 DEF RefusesOnlyJunk
<1>10. SentInv(bytes, start, p, written)'
  BY <1>2, <1>3 DEF WireInv, SentInv, PostedEnd, LastStart, Holds
<1>11. StreamInv(bytes, read, written)'
  BY <1>2, <1>3 DEF WireInv, StreamInv
<1>12. CASE receiver.pc = "length"
  <2>1. read = at + Len(receiver.got)
    BY <1>2, <1>12 DEF WireInv, ReadInv
  <2>2. read = at
    BY <1>5, <2>1
  <2>3. ReadInv(bytes, at, read)'
    BY <1>3, <1>4, <1>6, <2>2 DEF ReadInv
  <2>4. late' = late
    BY <1>0, <1>3, <1>12 DEF HistoryInv
  <2>5. PlaceInv(bytes, start, p, at)'
    BY <1>2, <1>3, <1>4, <1>12, <2>4
       DEF WireInv, PlaceInv, AtMessage, AtText, AtJunk, PostedEnd
  <2>6. QED
    BY <1>7, <1>8, <1>9, <1>10, <1>11, <2>3, <2>5, Kept
<1>13. CASE receiver.pc = "payload"
  <2>1. read = at + 2 + Len(receiver.got)
    BY <1>2, <1>13 DEF WireInv, ReadInv
  <2>2. read = at + 2
    BY <1>5, <2>1
  <2>3. ReadInv(bytes, at + 2, read)'
    BY <1>3, <1>4, <1>6, <2>2 DEF ReadInv
  <2>4. late' = TRUE
    BY <1>0, <1>3, <1>13 DEF HistoryInv
  <2>5. at < written
    <3>1. written = read + Len(stream) /\ stream \in Seq(Nat)
      BY <1>2 DEF WireInv, StreamInv
    <3>2. Len(stream) \in Nat
      BY <3>1
    <3>3. QED
      BY <2>2, <3>1, <3>2
  <2>6. SentInv(bytes, start, p, written) /\ PlaceInv(bytes, start, p, at)
    BY <1>2 DEF WireInv
  <2>7. Len(posted) \in Nat /\ Len(delivered) \in Nat /\ PostedEnd(start) \in Nat
    BY <1>0, Counts
  <2>8. \/ AtText(bytes, start, p, at + 2)'
        \/ AtJunk(start, p, at + 2)'
    <3>1. CASE AtMessage(start, at) /\ (Len(delivered) < Len(posted) \/ ~cut)
      <4>1. PICK m \in Messages :
              /\ Holds(bytes, at, Frame(m))
              /\ \/ at + Len(m) + 2 <= PostedEnd(start)
                 \/ ~cut
        BY <1>0, <2>5, <2>6, <3>1, MessageHere
      <4>2. /\ Len(m) \in Nat /\ Len(m) >= 1
            /\ m[1] > max_message_size \div Base
        <5>1. m \in Seq(Nat) /\ Len(m) \in 1 .. max_message_size
              /\ \A i \in 1 .. Len(m) : m[i] > max_message_size \div Base
          BY MessageBytes
        <5>2. max_message_size \in Nat
          BY BytesAssumption
        <5>3. Len(m) \in Nat /\ Len(m) >= 1
          BY <5>1, <5>2
        <5>4. 1 \in 1 .. Len(m)
          BY <5>3
        <5>5. QED
          BY <5>1, <5>3, <5>4
      <4>3. bytes[at + 2 + 1] = m[1]
        <5>1. 1 \in 1 .. Len(m)
          BY <4>2
        <5>2. QED
          BY <4>1, <5>1, MessageAt
      <4>4. cut => at + 2 < PostedEnd(start) + p
        BY <2>7, <4>1, <4>2
      <4>5. Len(delivered) <= Len(posted) /\ at = start[Len(delivered) + 1]
        BY <3>1 DEF AtMessage
      <4>6. AtText(bytes, start, p, at + 2)'
        BY <1>3, <1>4, <2>4, <4>2, <4>3, <4>4, <4>5 DEF AtText, PostedEnd
      <4>7. QED
        BY <4>6
    <3>2. CASE AtMessage(start, at) /\ ~(Len(delivered) < Len(posted)) /\ cut
      <4>1. Len(delivered) = Len(posted) /\ at = PostedEnd(start)
        BY <2>7, <3>2 DEF AtMessage, PostedEnd
      <4>2. CASE p <= 2
        <5>1. at + 2 >= PostedEnd(start) + p
          BY <2>7, <4>1, <4>2
        <5>2. QED
          BY <1>3, <2>7, <3>2, <4>1, <5>1 DEF AtJunk, PostedEnd
      <4>3. CASE p > 2
        <5>1. PICK m \in Messages :
                /\ p \in 1 .. Len(m) + 1
                /\ Holds(bytes, at, SubSeq(Frame(m), 1, p))
          BY <2>6, <3>2, <4>1 DEF SentInv
        <5>2. bytes[at + 3] > max_message_size \div Base
          BY <5>1, <4>3, CutText
        <5>3. at + 2 < PostedEnd(start) + p /\ at + 2 + 1 = at + 3
          BY <2>7, <4>1, <4>3
        <5>4. AtText(bytes, start, p, at + 2)'
          BY <1>3, <1>4, <2>4, <3>2, <4>1, <5>2, <5>3 DEF AtText, PostedEnd, AtMessage
        <5>5. QED
          BY <5>4
      <4>4. QED
        BY <4>2, <4>3
    <3>3. CASE AtJunk(start, p, at)
      <4>1. cut /\ Len(delivered) >= Len(posted) /\ at + 2 >= PostedEnd(start) + p
        BY <2>7, <3>3 DEF AtJunk
      <4>2. QED
        BY <1>3, <4>1 DEF AtJunk, PostedEnd
    <3>4. QED
      BY <1>13, <2>6, <3>1, <3>2, <3>3 DEF PlaceInv, AtText
  <2>9. PlaceInv(bytes, start, p, at + 2)'
    BY <2>8 DEF PlaceInv
  <2>10. at + 2 \in Nat
    OBVIOUS
  <2>11. QED
    BY <1>7, <1>8, <1>9, <1>10, <1>11, <2>3, <2>9, <2>10, Kept
<1>14. QED
  BY <1>3, <1>12, <1>13

\* Both bytes of a length are there.  What a peer sends is not too long, and a text
\* that is taken for a length is.
LEMMA LengthReadKeeps ==
  ASSUME ControlInv, LengthRead
  PROVE  ControlInv'
<1>1. PICK bytes, start \in Places :
        \E p, at, read, written \in Nat : WireInv(bytes, start, p, at, read, written)
  BY DEF ControlInv
<1>2. PICK p, at, read, written \in Nat : WireInv(bytes, start, p, at, read, written)
  BY <1>1
<1>0. SenderInv /\ HistoryInv
  BY DEF ControlInv
<1>3. /\ receiver.pc = "length" /\ Len(receiver.got) = 2
      /\ UNCHANGED <<sender, stream, posted, delivered, cut, late>>
      /\ UNCHANGED <<platform, sender, stream, history>>
  BY DEF LengthRead, HasRead, Wanted, history
<1>4. receiver \in Receivers /\ receiver.why = "open"
  BY <1>2, <1>3 DEF WireInv, ReadInv
<1>5. PICK had \in Seq(Nat) : had = receiver.got
  BY <1>4, Zenon DEF Receivers
<1>6. Len(had) = 2 /\ read = at + Len(had) /\ Holds(bytes, at, had)
  BY <1>2, <1>3, <1>5 DEF WireInv, ReadInv
<1> DEFINE size == MessageSize(receiver.got)
<1>7. /\ size \in Nat /\ size = bytes[at + 1] * Base + bytes[at + 2]
      /\ bytes[at + 1] \in Nat /\ bytes[at + 2] \in Nat
  <2>1. size = had[1] * Base + had[2]
    BY <1>5 DEF MessageSize
  <2>2. 1 \in 1 .. Len(had) /\ 2 \in 1 .. Len(had)
    BY <1>6
  <2>3. had[1] \in Nat /\ had[2] \in Nat /\ Base \in Nat
    BY <1>5, <2>2, BytesAssumption
  <2>4. bytes[at + 1] = had[1] /\ bytes[at + 2] = had[2]
    BY <1>6, <2>2 DEF Holds
  <2> HIDE DEF size
  <2>5. had[1] * Base + had[2] \in Nat
    BY <2>3, InNumbers
  <2>6. QED
    BY <2>1, <2>3, <2>4, <2>5
<1>8. at < written /\ read = at + 2 /\ written >= at + 2
  <2>1. written = read + Len(stream) /\ stream \in Seq(Nat)
    BY <1>2 DEF WireInv, StreamInv
  <2>2. Len(stream) \in Nat
    BY <2>1
  <2>3. QED
    BY <1>6, <2>1, <2>2
<1>9. SentInv(bytes, start, p, written) /\ PlaceInv(bytes, start, p, at)
  BY <1>2 DEF WireInv
<1>10. /\ Len(posted) \in Nat /\ Len(delivered) \in Nat /\ max_message_size \in Nat
       /\ Base \in Nat \ {0}
  BY <1>0, <1>1, Counts, BytesAssumption
<1>11. CASE size > max_message_size
  <2>1. CloseLink("too long")
    BY <1>11 DEF LengthRead
  <2>2. cut \/ late
    <3>1. SUFFICES ASSUME ~cut, ~late PROVE FALSE
      OBVIOUS
    <3>2. AtMessage(start, at)
      BY <1>3, <1>9, <3>1 DEF PlaceInv, AtText, AtJunk
    <3>3. PICK m \in Messages : Holds(bytes, at, Frame(m))
      BY <1>0, <1>8, <1>9, <3>1, <3>2, MessageHere
    <3>4. size = Len(m)
      BY <1>7, <3>3, MessageAt
    <3>5. Len(m) \in 1 .. max_message_size
      BY MessageBytes
    <3>6. QED
      BY <1>7, <1>10, <1>11, <3>4, <3>5
  <2>3. QED
    BY <1>3, <2>1, <2>2, ReceiverCloses
<1>12. CASE size <= max_message_size
  <2> DEFINE empty == <<>>
  <2>1. receiver' = [receiver EXCEPT !.pc = "payload", !.got = empty, !.size = size]
    <3>1. ~(size > max_message_size)
      <4> HIDE DEF size
      <4> QED
        BY <1>7, <1>10, <1>12
    <3>2. QED
      BY <3>1, Zenon DEF LengthRead
  <2>2. empty \in Seq(Nat) /\ Len(empty) = 0 /\ size \in 0 .. max_message_size
    BY <1>7, <1>10, <1>12, NoBytes
  <2> HIDE DEF empty, size
  <2>3. /\ receiver'.pc = "payload" /\ receiver'.got = empty
        /\ receiver'.size = size /\ receiver'.why = "open"
        /\ receiver' \in Receivers
    BY <1>4, <2>1, <2>2 DEF Receivers
  <2>4. SenderInv'
    BY <1>0, <1>3 DEF SenderInv, Sending
  <2>5. HistoryInv'
    BY <1>0, <1>3 DEF HistoryInv
  <2>6. RefusesOnlyJunk'
    BY <2>3 DEF RefusesOnlyJunk
  <2>7. SentInv(bytes, start, p, written)'
    BY <1>3, <1>9 DEF SentInv, PostedEnd, LastStart, Holds
  <2>8. StreamInv(bytes, read, written)'
    BY <1>2, <1>3 DEF WireInv, StreamInv
  <2>9. Holds(bytes, at + 2, receiver'.got)
    BY <2>2, <2>3 DEF Holds
  <2>10. ReadInv(bytes, at, read)'
    BY <1>7, <1>8, <2>2, <2>3, <2>9 DEF ReadInv, Holds
  <2>11. ~AtText(bytes, start, p, at)
    <3>1. SUFFICES ASSUME AtText(bytes, start, p, at) PROVE FALSE
      OBVIOUS
    <3>2. bytes[at + 1] > max_message_size \div Base
      BY <3>1 DEF AtText
    <3>3. size > max_message_size
      BY <1>7, <1>10, <3>2, LargerIsTooLong
    <3>4. QED
      BY <1>7, <1>10, <1>12, <3>3
  <2>12. PlaceInv(bytes, start, p, at)'
    BY <1>3, <1>9, <2>3, <2>11 DEF PlaceInv, AtMessage, AtJunk, PostedEnd
  <2>13. QED
    BY <2>4, <2>5, <2>6, <2>7, <2>8, <2>10, <2>12, Kept
<1>13. QED
  BY <1>7, <1>10, <1>11, <1>12

\* A text is complete: it is handed over, or refused.
LEMMA PayloadReadKeeps ==
  ASSUME ControlInv, PayloadRead
  PROVE  ControlInv'
<1>1. PICK bytes, start \in Places :
        \E p, at, read, written \in Nat : WireInv(bytes, start, p, at, read, written)
  BY DEF ControlInv
<1>2. PICK p, at, read, written \in Nat : WireInv(bytes, start, p, at, read, written)
  BY <1>1
<1>0. SenderInv /\ HistoryInv
  BY DEF ControlInv
<1>3. receiver.pc = "payload" /\ HasRead
  BY DEF PayloadRead
<1>4. receiver \in Receivers /\ receiver.why = "open"
  BY <1>2, <1>3 DEF WireInv, ReadInv
<1>5. PICK got \in Seq(Nat) : got = receiver.got
  BY <1>4, Zenon DEF Receivers
<1>6. \/ /\ ~late /\ Len(delivered) < Len(posted)
         /\ got = posted[Len(delivered) + 1]
         /\ start[Len(delivered) + 2] = read
      \/ /\ cut /\ Len(delivered) >= Len(posted)
         /\ got \notin Shutdowns
         /\ read >= PostedEnd(start) + p
  BY <1>0, <1>2, <1>3, <1>5, PayloadHere
<1>7. Len(posted) \in Nat /\ Len(delivered) \in Nat
  BY <1>0, <1>1, Counts
<1>8. CASE IsPrefix(Prefix, receiver.got) /\ receiver.got \notin Shutdowns
  <2>1. CloseLink("invalid") /\ UNCHANGED <<platform, sender, stream, history>>
    BY <1>8 DEF PayloadRead, history
  <2>2. cut \/ late
    <3>1. SUFFICES ASSUME ~cut PROVE FALSE
      OBVIOUS
    <3>2. got \in Messages
      <4>1. Len(delivered) + 1 \in 1 .. Len(posted)
        BY <1>6, <1>7, <3>1
      <4>2. posted \in Seq(Messages)
        BY <1>0 DEF HistoryInv
      <4>3. QED
        BY <1>6, <3>1, <4>1, <4>2
    <3>3. QED
      BY <1>5, <1>8, <3>2, ReportsAreNotRefused
  <2>3. QED
    BY <2>1, <2>2, ReceiverCloses
<1>9. CASE ~(IsPrefix(Prefix, receiver.got) /\ receiver.got \notin Shutdowns)
  <2> DEFINE empty == <<>>
  <2>1. /\ delivered' = Append(delivered, receiver.got)
        /\ receiver' = [receiver EXCEPT !.pc = "idle", !.got = empty]
        /\ UNCHANGED <<sender, stream, posted, cut, late>>
    BY <1>9, Zenon DEF PayloadRead
  <2>2. empty \in Seq(Nat)
    BY NoBytes, Zenon
  <2>3. empty = <<>>
    OBVIOUS
  <2> HIDE DEF empty
  <2>4. /\ receiver'.pc = "idle" /\ receiver'.got = empty
        /\ receiver'.why = "open" /\ receiver' \in Receivers
    BY <1>4, <2>1, <2>2 DEF Receivers
  <2>5. /\ delivered' \in Seq(Seq(Nat)) /\ Len(delivered') = Len(delivered) + 1
    <3>1. delivered \in Seq(Seq(Nat))
      BY <1>0 DEF HistoryInv
    <3>2. delivered' = Append(delivered, got)
      BY <1>5, <2>1
    <3>3. QED
      BY <1>5, <3>1, <3>2, AppendProperties
  <2>6. UNCHANGED <<sender, stream, posted, cut, late>>
    BY <2>1
  <2>7. SenderInv'
    BY <1>0, <2>6 DEF SenderInv, Sending
  <2>8. HistoryInv'
    BY <1>0, <2>5, <2>6 DEF HistoryInv
  <2>9. RefusesOnlyJunk'
    BY <2>4 DEF RefusesOnlyJunk
  <2>10. SentInv(bytes, start, p, written)'
    BY <1>2, <2>6 DEF WireInv, SentInv, PostedEnd, LastStart, Holds
  <2>11. StreamInv(bytes, read, written)'
    BY <1>2, <2>6 DEF WireInv, StreamInv
  <2>12. ReadInv(bytes, read, read)'
    BY <2>3, <2>4 DEF ReadInv
  <2>13. PlaceInv(bytes, start, p, read)'
    <3>1. CASE /\ ~late /\ Len(delivered) < Len(posted)
               /\ start[Len(delivered) + 2] = read
      <4>1. Len(delivered') <= Len(posted) /\ Len(delivered') + 1 = Len(delivered) + 2
        BY <1>7, <2>5, <3>1
      <4>2. AtMessage(start, read)'
        BY <2>6, <3>1, <4>1 DEF AtMessage
      <4>3. QED
        BY <4>2 DEF PlaceInv
    <3>2. CASE /\ cut /\ Len(delivered) >= Len(posted)
               /\ read >= PostedEnd(start) + p
      <4>1. Len(delivered') >= Len(posted)
        BY <1>7, <2>5, <3>2
      <4>2. AtJunk(start, p, read)'
        BY <2>6, <3>2, <4>1 DEF AtJunk, PostedEnd
      <4>3. QED
        BY <4>2 DEF PlaceInv
    <3>3. QED
      BY <1>6, <3>1, <3>2
  <2>14. QED
    BY <2>7, <2>8, <2>9, <2>10, <2>11, <2>12, <2>13, Kept
<1>10. QED
  BY <1>8, <1>9

\* The bytes of a message that is begun come behind all others.
LEMMA NewBytes ==
  ASSUME NEW bytes \in Places, NEW written \in Nat, NEW m \in Messages
  PROVE  \E new \in Places :
           /\ \A i \in Nat : i <= written => new[i] = bytes[i]
           /\ Holds(new, written, Frame(m))
<1> DEFINE frame == Frame(m)
           new == [i \in Nat |->
                     IF i <= written THEN bytes[i]
                     ELSE IF i <= written + Len(frame) THEN frame[i - written] ELSE 0]
<1>1. frame \in Seq(Nat)
  BY FrameBytes
<1> HIDE DEF frame
<1>2. Len(frame) \in Nat /\ \A i \in 1 .. Len(frame) : frame[i] \in Nat
  BY <1>1
<1>3. \A i \in Nat : bytes[i] \in Nat
  BY DEF Places
<1>4. new \in Places
  <2>1. ASSUME NEW i \in Nat PROVE new[i] \in Nat
    <3>1. CASE i <= written
      BY <1>3, <3>1
    <3>2. CASE i > written /\ i <= written + Len(frame)
      <4>1. i - written \in 1 .. Len(frame)
        BY <1>2, <3>2
      <4>2. new[i] = frame[i - written]
        BY <3>2
      <4>3. QED
        BY <1>2, <4>1, <4>2
    <3>3. CASE i > written + Len(frame)
      BY <1>2, <3>3
    <3>4. QED
      BY <1>2, <3>1, <3>2, <3>3
  <2>2. QED
    BY <2>1 DEF Places
<1>5. \A i \in Nat : i <= written => new[i] = bytes[i]
  OBVIOUS
<1>6. ASSUME NEW i \in 1 .. Len(frame) PROVE new[written + i] = frame[i]
  <2>1. /\ written + i \in Nat /\ ~(written + i <= written)
        /\ written + i <= written + Len(frame) /\ (written + i) - written = i
    BY <1>2
  <2>2. QED
    BY <2>1
<1> HIDE DEF new
<1>7. Holds(new, written, frame)
  BY <1>6 DEF Holds
<1>8. QED
  BY <1>4, <1>5, <1>7 DEF frame

\* The others are not changed.
LEMMA OldBytes ==
  ASSUME NEW bytes \in Places, NEW new \in Places, NEW written \in Nat,
         \A i \in Nat : i <= written => new[i] = bytes[i],
         NEW from \in Nat, NEW s \in Seq(Nat), from + Len(s) <= written,
         Holds(bytes, from, s)
  PROVE  Holds(new, from, s)
<1>1. Len(s) \in Nat
  OBVIOUS
<1>2. ASSUME NEW i \in 1 .. Len(s) PROVE new[from + i] = s[i]
  <2>1. from + i \in Nat /\ from + i <= written
    BY <1>1
  <2>2. QED
    BY <2>1 DEF Holds
<1>3. QED
  BY <1>2 DEF Holds

\* How much of a message was sent when its sender is torn out of it.
LEMMA TornOut ==
  ASSUME NEW bytes \in Places, NEW e \in Nat, NEW written \in Nat, NEW m \in Messages,
         NEW rest \in Seq(Nat), rest # <<>>, rest # Frame(m),
         Len(rest) <= Len(m) + 2,
         Holds(bytes, e, Frame(m)), Holds(bytes, written, rest),
         written + Len(rest) = e + Len(m) + 2
  PROVE  \E p \in 1 .. Len(m) + 1 :
           /\ written = e + p
           /\ Holds(bytes, e, SubSeq(Frame(m), 1, p))
<1> DEFINE frame == Frame(m)
           p == Len(m) + 2 - Len(rest)
<1>1. frame \in Seq(Nat) /\ Len(frame) = Len(m) + 2
  BY FrameBytes
<1>2. rest # frame /\ Holds(bytes, e, frame)
  OBVIOUS
<1> HIDE DEF frame
<1>3. Len(m) \in Nat
  <2>1. m \in Seq(Nat)
    BY MessageBytes
  <2>2. QED
    BY <2>1
<1>4. Len(rest) \in Nat \ {0}
  BY EmptySeq
<1>5. p \in 0 .. Len(m) + 1 /\ written = e + p
  BY <1>3, <1>4
<1>6. ASSUME p = 0 PROVE FALSE
  <2>0. Len(rest) = Len(frame)
    BY <1>1, <1>3, <1>4, <1>6
  <2> HIDE DEF p
  <2>1. written = e /\ Len(rest) = Len(frame)
    BY <1>5, <1>6, <2>0
  <2>2. ASSUME NEW i \in 1 .. Len(frame) PROVE rest[i] = frame[i]
    <3>1. bytes[e + i] = frame[i]
      BY <1>2 DEF Holds
    <3>2. bytes[e + i] = rest[i]
      BY <2>1 DEF Holds
    <3>3. QED
      BY <3>1, <3>2
  <2>3. rest = frame
    BY <1>1, <2>1, <2>2, SameBytes
  <2>4. QED
    BY <1>2, <2>3
<1> HIDE DEF p
<1>7. p \in 1 .. Len(m) + 1 /\ p \in 0 .. Len(frame)
  BY <1>1, <1>3, <1>5, <1>6
<1>8. Len(SubSeq(frame, 1, p)) = p /\ \A i \in 1 .. p : SubSeq(frame, 1, p)[i] = frame[i]
  BY <1>1, <1>7, Divided
<1>9. \A i \in 1 .. p : bytes[e + i] = frame[i]
  <2>1. \A i \in 1 .. p : i \in 1 .. Len(frame)
    BY <1>1, <1>3, <1>7
  <2>2. QED
    BY <1>2, <2>1 DEF Holds
<1>10. Holds(bytes, e, SubSeq(frame, 1, p))
  BY <1>8, <1>9 DEF Holds
<1>11. QED
  BY <1>5, <1>7, <1>10 DEF frame

\* A message is begun: by send_message_internal(), or by do_panic(), perhaps in the
\* middle of another, of which a fragment stays behind.
LEMMA FrameBegins ==
  ASSUME ControlInv, sender.pc \in {"idle", "sending"},
         NEW m \in Messages, NEW pc \in {"sending", "panic"},
         sender' = [pc |-> pc, msg |-> m, rest |-> Frame(m)],
         pc = "panic" => \E n \in ReportSizes : m = Report(n),
         cut' = (sender.rest # <<>> /\ sender.rest # Frame(sender.msg)),
         cut' => pc = "panic",
         UNCHANGED <<stream, receiver, posted, delivered, late>>
  PROVE  ControlInv'
<1>1. PICK bytes, start \in Places :
        \E p, at, read, written \in Nat : WireInv(bytes, start, p, at, read, written)
  BY DEF ControlInv
<1>2. PICK p, at, read, written \in Nat : WireInv(bytes, start, p, at, read, written)
  BY <1>1
<1>0. SenderInv /\ HistoryInv /\ RefusesOnlyJunk
  BY DEF ControlInv
<1>3. UNCHANGED <<stream, receiver, posted, delivered, late>>
  OBVIOUS
<1>4. ~cut /\ cut' \in BOOLEAN
  BY <1>0 DEF SenderInv
<1>5. PICK frame \in Seq(Nat) : frame = Frame(m) /\ Len(frame) = Len(m) + 2
  BY FrameBytes
<1>6. Len(m) \in Nat /\ Len(m) >= 1
  <2>1. m \in Seq(Nat) /\ Len(m) \in 1 .. max_message_size
    BY MessageBytes
  <2>2. Len(m) \in Nat
    BY <2>1
  <2>3. max_message_size \in Nat
    BY BytesAssumption
  <2>4. QED
    BY <2>1, <2>2, <2>3
<1>7. /\ sender'.pc = pc /\ sender'.msg = m /\ sender'.rest = frame
      /\ sender' \in Senders
  BY <1>5 DEF Senders
<1>8. frame # <<>>
  <2>1. Len(frame) # 0
    BY <1>5, <1>6
  <2>2. QED
    BY <2>1, NoBytes
<1>9. SenderInv'
  BY <1>5, <1>7, <1>8 DEF SenderInv, Sending
<1>10. HistoryInv'
  BY <1>0, <1>3, <1>4 DEF HistoryInv
<1>11. PICK e \in Nat : e = PostedEnd(start)
  BY <1>0, Counts
<1>12. SentInv(bytes, start, p, written) /\ LastStart(start, p) = e
  BY <1>2, <1>4, <1>11 DEF WireInv, LastStart
<1>13. PICK q \in Nat :
         /\ written = e + q
         /\ ~cut' => q = 0
         /\ cut' => \E k \in Messages :
                      /\ q \in 1 .. Len(k) + 1
                      /\ Holds(bytes, e, SubSeq(Frame(k), 1, q))
  <2>1. CASE sender.rest = <<>>
    <3>1. written = e /\ ~cut'
      BY <1>4, <1>11, <1>12, <2>1 DEF SentInv
    <3>2. 0 \in Nat /\ written = e + 0
      BY <3>1
    <3>3. QED
      BY <3>1, <3>2
  <2>2. CASE sender.rest # <<>>
    <3>1. PICK rest \in Seq(Nat) : rest = sender.rest
      BY <1>0 DEF SenderInv, Senders
    <3>2. PICK k \in Messages : k = sender.msg
      BY <1>0, <2>2 DEF SenderInv
    <3>3. /\ Holds(bytes, e, Frame(k)) /\ Holds(bytes, written, rest)
          /\ written + Len(rest) = e + Len(k) + 2
      BY <1>12, <2>2, <3>1, <3>2 DEF SentInv
    <3>4. Len(rest) <= Len(k) + 2
      BY <1>0, <3>1, <3>2 DEF SenderInv
    <3>5. CASE rest = Frame(k)
      <4>1. ~cut'
        BY <3>1, <3>2, <3>5
      <4>2. Len(rest) = Len(k) + 2 /\ Len(k) \in Nat
        <5>1. k \in Seq(Nat)
          BY MessageBytes
        <5>2. Len(k) \in Nat
          BY <5>1
        <5>3. QED
          BY <3>5, <5>2, FrameBytes
      <4>3. written = e + 0 /\ 0 \in Nat
        BY <3>3, <4>2
      <4>4. QED
        BY <4>1, <4>3
    <3>6. CASE rest # Frame(k)
      <4>1. PICK q \in 1 .. Len(k) + 1 :
              written = e + q /\ Holds(bytes, e, SubSeq(Frame(k), 1, q))
        BY <2>2, <3>1, <3>3, <3>4, <3>6, TornOut
      <4>2. cut'
        BY <2>2, <3>1, <3>2, <3>6
      <4>3. q \in Nat
        <5>1. k \in Seq(Nat)
          BY MessageBytes
        <5>2. Len(k) \in Nat
          BY <5>1
        <5>3. QED
          BY <4>1, <5>2
      <4>4. QED
        BY <4>1, <4>2, <4>3
    <3>7. QED
      BY <3>5, <3>6
  <2>3. QED
    BY <2>1, <2>2
<1>14. LastStart(start, q)' = written /\ PostedEnd(start)' = e
  BY <1>3, <1>4, <1>11, <1>13 DEF LastStart, PostedEnd
<1>15. PICK new \in Places :
         /\ \A i \in Nat : i <= written => new[i] = bytes[i]
         /\ Holds(new, written, frame)
  BY <1>5, NewBytes
<1>16. ASSUME NEW from \in Nat, NEW s \in Seq(Nat), from + Len(s) <= written,
              Holds(bytes, from, s)
       PROVE  Holds(new, from, s)
  BY <1>15, <1>16, OldBytes
<1>17. /\ written = read + Len(stream) /\ stream \in Seq(Nat)
       /\ Holds(bytes, read, stream) /\ read <= written
  <2>1. written = read + Len(stream) /\ stream \in Seq(Nat) /\ Holds(bytes, read, stream)
    BY <1>2 DEF WireInv, StreamInv
  <2>2. Len(stream) \in Nat
    BY <2>1
  <2>3. QED
    BY <2>1, <2>2
<1>18. SentInv(new, start, q, written)'
  <2>1. ASSUME NEW k \in 1 .. Len(posted)
        PROVE  /\ start[k + 1] = start[k] + Len(posted[k]) + 2
               /\ start[k + 1] <= e
               /\ Holds(new, start[k], Frame(posted[k]))
    <3>1. posted[k] \in Messages
      BY <1>0 DEF HistoryInv
    <3>2. /\ start[k + 1] = start[k] + Len(posted[k]) + 2 /\ start[k + 1] <= e
          /\ Holds(bytes, start[k], Frame(posted[k]))
      BY <1>11, <1>12 DEF SentInv
    <3>3. PICK old \in Seq(Nat) : old = Frame(posted[k]) /\ Len(old) = Len(posted[k]) + 2
      BY <3>1, FrameBytes
    <3>4. start[k] \in Nat /\ start[k + 1] \in Nat
      <4>1. Len(posted) \in Nat
        BY <1>0, Counts
      <4>2. k \in Nat /\ k + 1 \in Nat
        BY <4>1
      <4>3. QED
        BY <1>0, <4>2, Counts
    <3>5. Len(posted[k]) \in Nat
      <4>1. posted[k] \in Seq(Nat)
        BY <3>1, MessageBytes
      <4>2. QED
        BY <4>1
    <3>6. start[k] + Len(old) <= written
      <4>1. PICK a, b, c \in Nat : a = start[k] /\ b = start[k + 1] /\ c = Len(posted[k])
        BY <3>4, <3>5
      <4>2. b = a + c + 2 /\ b <= e /\ Len(old) = c + 2
        BY <3>2, <3>3, <4>1
      <4>3. written = e + q
        BY <1>13
      <4>4. a + (c + 2) <= written
        BY <4>2, <4>3
      <4>5. QED
        BY <4>1, <4>2, <4>4
    <3>7. Holds(new, start[k], old)
      BY <1>16, <3>2, <3>3, <3>4, <3>6
    <3>8. QED
      BY <3>2, <3>3, <3>7
  <2>2. ASSUME cut'
        PROVE  \E k \in Messages :
                 /\ q \in 1 .. Len(k) + 1
                 /\ Holds(new, e, SubSeq(Frame(k), 1, q))
    <3>1. PICK k \in Messages :
            q \in 1 .. Len(k) + 1 /\ Holds(bytes, e, SubSeq(Frame(k), 1, q))
      BY <1>13, <2>2
    <3>2. PICK part \in Seq(Nat) : part = SubSeq(Frame(k), 1, q) /\ Len(part) = q
      <4>1. PICK old \in Seq(Nat) : old = Frame(k) /\ Len(old) = Len(k) + 2
        BY FrameBytes
      <4>2. k \in Seq(Nat)
        BY MessageBytes
      <4>3. Len(k) \in Nat
        BY <4>2
      <4>4. q \in 0 .. Len(old)
        BY <3>1, <4>1, <4>3
      <4>5. SubSeq(old, 1, q) \in Seq(Nat) /\ Len(SubSeq(old, 1, q)) = q
        BY <4>4, Divided
      <4>6. QED
        BY <4>1, <4>5
    <3>3. Holds(new, e, part)
      <4>1. e + Len(part) <= written /\ Holds(bytes, e, part)
        BY <1>13, <3>1, <3>2
      <4>2. QED
        BY <1>16, <4>1
    <3>4. QED
      BY <3>1, <3>2, <3>3
  <2>3. /\ Holds(new, written, Frame(m)) /\ Holds(new, written, frame)
        /\ written + Len(frame) = written + Len(m) + 2
    BY <1>5, <1>6, <1>15
  <2>4. QED
    BY <1>3, <1>7, <1>8, <1>14, <2>1, <2>2, <2>3 DEF SentInv, Holds
<1>19. StreamInv(new, read, written)'
  <2>1. Holds(new, read, stream)
    <3>1. PICK s \in Seq(Nat) : s = stream
      BY <1>17
    <3>2. read + Len(s) <= written /\ Holds(bytes, read, s)
      BY <1>17, <3>1
    <3>3. QED
      BY <1>16, <3>1, <3>2
  <2>2. QED
    BY <1>3, <1>17, <2>1 DEF StreamInv, Holds
<1>20. /\ receiver \in Receivers /\ receiver.got \in Seq(Nat)
       /\ ReadInv(bytes, at, read)
  <2>1. receiver \in Receivers /\ ReadInv(bytes, at, read)
    BY <1>2 DEF WireInv, ReadInv
  <2>2. receiver.got \in Seq(Nat)
    BY <2>1, Zenon DEF Receivers
  <2>3. QED
    BY <2>1, <2>2
<1>21. ReadInv(new, at, read)'
  <2>1. PICK got \in Seq(Nat) : got = receiver.got
    BY <1>20
  <2>2. Len(got) \in Nat
    OBVIOUS
  <2>3. receiver.pc = "length" => Holds(new, at, got)
    <3>1. SUFFICES ASSUME receiver.pc = "length" PROVE Holds(new, at, got)
      OBVIOUS
    <3>2. read = at + Len(got) /\ Holds(bytes, at, got)
      BY <1>20, <2>1, <3>1 DEF ReadInv
    <3>3. at + Len(got) <= written
      BY <1>17, <3>2
    <3>4. QED
      BY <1>16, <3>2, <3>3
  <2>4. receiver.pc = "payload" => /\ Holds(new, at + 2, got)
                                   /\ new[at + 1] = bytes[at + 1]
                                   /\ new[at + 2] = bytes[at + 2]
    <3>1. SUFFICES ASSUME receiver.pc = "payload"
                   PROVE  /\ Holds(new, at + 2, got)
                          /\ new[at + 1] = bytes[at + 1]
                          /\ new[at + 2] = bytes[at + 2]
      OBVIOUS
    <3>2. read = at + 2 + Len(got) /\ Holds(bytes, at + 2, got)
      BY <1>20, <2>1, <3>1 DEF ReadInv
    <3>3. /\ at + 2 + Len(got) <= written /\ at + 2 \in Nat /\ at + 1 \in Nat
          /\ at + 1 <= written /\ at + 2 <= written
      BY <1>17, <2>2, <3>2
    <3>4. Holds(new, at + 2, got)
      BY <1>16, <3>2, <3>3
    <3>5. QED
      BY <1>15, <3>3, <3>4
  <2>5. receiver.pc = "length" => Holds(new, at, receiver.got)
    BY <2>1, <2>3
  <2>6. receiver.pc = "payload" => Holds(new, at + 2, receiver.got)
    BY <2>1, <2>4
  <2>7. ReadInv(new, at, read)
    BY <1>20, <2>4, <2>5, <2>6 DEF ReadInv
  <2>8. QED
    BY <1>3, <2>7 DEF ReadInv, Holds
<1>22. PlaceInv(new, start, q, at)'
  <2>1. /\ Len(posted) \in Nat /\ Len(delivered) \in Nat
        /\ \A k \in Nat : start[k] \in Nat
    BY <1>0, Counts
  <2>2. CASE receiver.pc = "closed"
    BY <1>3, <2>2 DEF PlaceInv
  <2>3. CASE AtMessage(start, at)
    <3>1. AtMessage(start, at)'
      BY <1>3, <2>3 DEF AtMessage
    <3>2. QED
      BY <3>1 DEF PlaceInv
  <2>4. CASE receiver.pc # "closed" /\ AtText(bytes, start, p, at)
    <3>1. /\ late /\ receiver.pc \in {"idle", "length"}
          /\ Len(delivered) <= Len(posted)
          /\ at = start[Len(delivered) + 1] + 2
          /\ bytes[at + 1] > max_message_size \div Base
      BY <2>4 DEF AtText
    <3>2. at <= written
      <4>1. CASE receiver.pc = "idle"
        BY <1>17, <1>20, <4>1 DEF ReadInv
      <4>2. CASE receiver.pc = "length"
        <5>1. read = at + Len(receiver.got) /\ Len(receiver.got) \in Nat
          BY <1>20, <4>2 DEF ReadInv
        <5>2. QED
          BY <1>17, <5>1
      <4>3. QED
        BY <3>1, <4>1, <4>2
    <3>3. CASE at < written
      <4>1. new[at + 1] > max_message_size \div Base
        <5>1. at + 1 \in Nat /\ at + 1 <= written
          BY <3>3
        <5>2. QED
          BY <1>15, <3>1, <5>1
      <4>2. at < e + q
        BY <1>13, <3>3
      <4>3. AtText(new, start, q, at)'
        BY <1>3, <1>14, <3>1, <4>1, <4>2 DEF AtText
      <4>4. QED
        BY <4>3 DEF PlaceInv
    <3>4. CASE at = written
      <4>1. Len(delivered) = Len(posted)
        <5>1. SUFFICES ASSUME Len(delivered) < Len(posted) PROVE FALSE
          BY <2>1, <3>1
        <5>2. PICK k \in 1 .. Len(posted) : k = Len(delivered) + 1 /\ k \in Nat /\ k + 1 \in Nat
          BY <2>1, <5>1
        <5>3. start[k + 1] = start[k] + Len(posted[k]) + 2 /\ start[k + 1] <= e
          BY <1>11, <1>12 DEF SentInv
        <5>4. Len(posted[k]) \in Nat /\ Len(posted[k]) >= 1
          <6>1. posted[k] \in Messages
            BY <1>0 DEF HistoryInv
          <6>2. posted[k] \in Seq(Nat) /\ Len(posted[k]) \in 1 .. max_message_size
            BY <6>1, MessageBytes
          <6>3. max_message_size \in Nat
            BY BytesAssumption
          <6>4. QED
            BY <6>2, <6>3
        <5>5. start[k] \in Nat /\ start[k + 1] \in Nat /\ at = start[k] + 2
          BY <2>1, <3>1, <5>2
        <5>6. written = e + q
          BY <1>13
        <5>7. start[k] + 2 < start[k + 1]
          BY <5>3, <5>4, <5>5
        <5>8. at < e
          BY <5>3, <5>5, <5>7
        <5>9. QED
          BY <3>4, <5>6, <5>8
      <4>2. at = e + 2
        BY <1>11, <3>1, <4>1 DEF PostedEnd
      <4>3. q = 2 /\ cut'
        BY <1>13, <3>4, <4>2
      <4>4. AtJunk(start, q, at)'
        BY <1>3, <1>14, <2>1, <4>1, <4>2, <4>3 DEF AtJunk
      <4>5. QED
        BY <4>4 DEF PlaceInv
    <3>5. QED
      BY <3>2, <3>3, <3>4
  <2>5. CASE AtJunk(start, p, at)
    BY <1>4, <2>5 DEF AtJunk
  <2>6. PlaceInv(bytes, start, p, at)
    BY <1>2 DEF WireInv
  <2>7. QED
    BY <2>2, <2>3, <2>4, <2>5, <2>6 DEF PlaceInv
<1>23. RefusesOnlyJunk'
  <2>1. receiver.why \in {"too long", "invalid"} => late
    BY <1>0, <1>4, Zenon DEF RefusesOnlyJunk
  <2>2. (late' <=> late) /\ receiver' = receiver
    BY <1>3
  <2>3. receiver'.why \in {"too long", "invalid"} => late
    BY <2>1, <2>2
  <2>4. receiver'.why \in {"too long", "invalid"} => late'
    BY <2>2, <2>3, Zenon
  <2>5. QED
    BY <2>4, Zenon DEF RefusesOnlyJunk
<1>24. QED
  BY <1>9, <1>10, <1>18, <1>19, <1>21, <1>22, <1>23, Kept

\* send_message_internal() is called.
LEMMA BeginSendKeeps ==
  ASSUME ControlInv, BeginSend
  PROVE  ControlInv'
<1>1. PICK m \in Messages :
        sender' = [pc |-> "sending", msg |-> m, rest |-> Frame(m)]
  BY DEF BeginSend
<1>2. sender.pc = "idle" /\ SenderInv
  BY DEF BeginSend, ControlInv
<1>3. sender.rest = <<>> /\ ~cut
  BY <1>2 DEF SenderInv
<1>4. UNCHANGED <<stream, receiver, posted, delivered, late>> /\ cut' = cut
  BY DEF BeginSend, history
<1>5. cut' = (sender.rest # <<>> /\ sender.rest # Frame(sender.msg))
  <2>1. cut \in BOOLEAN
    BY DEF ControlInv, HistoryInv
  <2>2. QED
    BY <1>3, <1>4, <2>1
<1>6. ~cut'
  BY <1>3, <1>4
<1>7. QED
  BY <1>1, <1>2, <1>4, <1>5, <1>6, FrameBegins

\* do_panic() reports.
LEMMA PanicKeeps ==
  ASSUME ControlInv, Panic
  PROVE  ControlInv'
<1>0. SenderInv /\ HistoryInv
  BY DEF ControlInv
<1>1. /\ sender.pc \in {"idle", "sending"}
      /\ UNCHANGED <<platform, stream, receiver, posted, delivered, late>>
  BY DEF Panic
<1>2. PICK n \in ReportSizes :
        IF n > max_message_size
          THEN SenderGone /\ UNCHANGED cut
          ELSE /\ sender' = [pc |-> "panic", msg |-> Report(n),
                             rest |-> Frame(Report(n))]
               /\ cut' = (sender.pc = "sending" /\ sender.rest # Frame(sender.msg))
  BY DEF Panic
<1>3. CASE n > max_message_size
  <2>1. SenderGone /\ UNCHANGED <<platform, stream, receiver, history>>
    BY <1>1, <1>2, <1>3 DEF history
  <2>2. QED
    BY <2>1, SenderCloses
<1>4. CASE ~(n > max_message_size)
  <2>1. PICK m \in Messages : m = Report(n)
    <3>1. n \in Nat /\ max_message_size \in Nat
      BY ReportAssumption, BytesAssumption
    <3>2. n <= max_message_size
      BY <1>4, <3>1
    <3>3. QED
      BY <3>2 DEF Messages
  <2>2. /\ sender' = [pc |-> "panic", msg |-> m, rest |-> Frame(m)]
        /\ cut' = (sender.pc = "sending" /\ sender.rest # Frame(sender.msg))
    BY <1>2, <1>4, <2>1
  <2>3. cut' = (sender.rest # <<>> /\ sender.rest # Frame(sender.msg))
    <3>1. sender.pc = "sending" <=> sender.rest # <<>>
      BY <1>0, <1>1 DEF SenderInv, Sending
    <3>2. QED
      BY <2>2, <3>1
  <2>4. UNCHANGED <<stream, receiver, posted, delivered, late>>
    BY <1>1
  <2>5. QED
    BY <1>1, <2>1, <2>2, <2>3, <2>4, FrameBegins
<1>5. QED
  BY <1>3, <1>4

\* One more message has a start.
LEMMA NextStart ==
  ASSUME NEW start \in Places, NEW l \in Nat, NEW next \in Nat
  PROVE  \E extended \in Places :
           /\ extended[l + 2] = next
           /\ \A k \in 1 .. l + 1 : extended[k] = start[k]
<1> DEFINE extended == [k \in Nat |-> IF k = l + 2 THEN next ELSE start[k]]
<1>1. extended \in Places
  BY DEF Places
<1>2. extended[l + 2] = next
  OBVIOUS
<1>3. \A k \in 1 .. l + 1 : extended[k] = start[k]
  OBVIOUS
<1>4. QED
  BY <1>1, <1>2, <1>3

\* send() takes bytes from the front of what is left of the message.
LEMMA SendPartKeeps ==
  ASSUME ControlInv, SendPart
  PROVE  ControlInv'
<1>1. PICK bytes, start \in Places :
        \E p, at, read, written \in Nat : WireInv(bytes, start, p, at, read, written)
  BY DEF ControlInv
<1>2. PICK p, at, read, written \in Nat : WireInv(bytes, start, p, at, read, written)
  BY <1>1
<1>0. SenderInv /\ HistoryInv /\ RefusesOnlyJunk
  BY DEF ControlInv
<1>3. /\ Sending /\ receiver.pc # "closed" /\ Len(stream) < Capacity
      /\ stream' = stream \o SubSeq(sender.rest, 1, Taken)
      /\ UNCHANGED <<receiver, delivered, cut, late>>
  BY DEF SendPart
<1>4. PICK rest \in Seq(Nat) : rest = sender.rest
  BY <1>0 DEF SenderInv, Senders
<1>5. PICK msg \in Messages : msg = sender.msg
  BY <1>0, <1>3 DEF SenderInv
<1>6. /\ rest # <<>> /\ Len(rest) \in Nat \ {0} /\ Len(rest) <= Len(msg) + 2
      /\ Len(msg) \in Nat
  <2>1. rest # <<>> /\ Len(rest) <= Len(msg) + 2
    BY <1>0, <1>3, <1>4, <1>5 DEF SenderInv
  <2>2. msg \in Seq(Nat)
    BY MessageBytes
  <2>3. Len(msg) \in Nat
    BY <2>2
  <2>4. QED
    BY <2>1, <2>3, EmptySeq
<1>7. /\ stream \in Seq(Nat) /\ written = read + Len(stream)
      /\ Holds(bytes, read, stream)
  BY <1>2 DEF WireInv, StreamInv
<1>8. PICK n \in 0 .. Len(rest) : n = Taken
  <2>1. Len(stream) \in Nat /\ Capacity \in Nat
    BY <1>7, CapacityAssumption
  <2>2. Taken = IF Capacity - Len(stream) < Len(rest) THEN Capacity - Len(stream) ELSE Len(rest)
    BY <1>4 DEF Taken
  <2>3. PICK room \in Nat : room = Capacity - Len(stream)
    <3>1. Len(stream) < Capacity
      BY <1>3
    <3>2. Capacity - Len(stream) \in Nat
      BY <2>1, <3>1
    <3>3. QED
      BY <3>2
  <2>4. Taken = IF room < Len(rest) THEN room ELSE Len(rest)
    BY <2>2, <2>3
  <2>5. QED
    BY <1>6, <2>4, SmallerOf
<1>9. PICK next \in Nat : next = written + n
  BY <1>6, <1>8
<1>10. PICK left \in Seq(Nat) :
         /\ left = SubSeq(rest, n + 1, Len(rest)) /\ Len(left) = Len(rest) - n
         /\ Holds(bytes, next, left)
         /\ stream' \in Seq(Nat) /\ next = read + Len(stream')
         /\ Holds(bytes, read, stream')
  <2>1. PICK old \in Seq(Nat) : old = stream
    BY <1>7
  <2>2. /\ written = read + Len(old) /\ Holds(bytes, read, old)
        /\ Holds(bytes, written, rest)
    BY <1>2, <1>4, <1>7, <2>1 DEF WireInv, SentInv
  <2> DEFINE left == SubSeq(rest, n + 1, Len(rest))
  <2>3. Moves(old, rest, n, stream', left)
    BY <1>3, <1>4, <1>8, <2>1 DEF Moves
  <2>4. left = SubSeq(rest, n + 1, Len(rest))
    OBVIOUS
  <2> HIDE DEF left
  <2>5. /\ stream' \in Seq(Nat) /\ left \in Seq(Nat) /\ Len(left) = Len(rest) - n
        /\ written + n = read + Len(stream')
        /\ Holds(bytes, read, stream') /\ Holds(bytes, written + n, left)
    BY <2>2, <2>3, MovedBytes
  <2>6. QED
    BY <1>9, <2>4, <2>5
<1>11. StreamInv(bytes, read, next)'
  BY <1>10 DEF StreamInv, Holds
<1>12. ReadInv(bytes, at, read)'
  BY <1>2, <1>3 DEF WireInv, ReadInv, Holds
<1>13. /\ SentInv(bytes, start, p, written)
       /\ written + Len(rest) = LastStart(start, p) + Len(msg) + 2
       /\ Holds(bytes, LastStart(start, p), Frame(msg))
  <2>1. SentInv(bytes, start, p, written)
    BY <1>2 DEF WireInv
  <2>2. QED
    BY <1>4, <1>5, <1>6, <2>1 DEF SentInv
<1>14. PlaceInv(bytes, start, p, at)
  BY <1>2 DEF WireInv
<1>15. RefusesOnlyJunk'
  <2>1. (late' <=> late) /\ (cut' <=> cut) /\ receiver' = receiver
    BY <1>3
  <2>2. receiver.why \in {"too long", "invalid"} => cut \/ late
    BY <1>0, Zenon DEF RefusesOnlyJunk
  <2>3. receiver'.why \in {"too long", "invalid"} => cut \/ late
    BY <2>1, <2>2
  <2>4. QED
    BY <2>1, <2>3, Zenon DEF RefusesOnlyJunk
<1>16. sender \in Senders /\ sender.pc \in {"sending", "panic"}
  BY <1>0, <1>3 DEF SenderInv, Sending
<1>17. CASE n < Len(rest)
  <2>1. sender' = [sender EXCEPT !.rest = left] /\ posted' = posted
    BY <1>4, <1>8, <1>10, <1>17 DEF SendPart
  <2>2. /\ sender'.pc = sender.pc /\ sender'.msg = sender.msg /\ sender'.rest = left
        /\ sender' \in Senders
    BY <1>16, <2>1 DEF Senders
  <2>3. Len(left) # 0 /\ Len(left) <= Len(msg) + 2
    BY <1>6, <1>8, <1>10, <1>17
  <2>4. left # <<>>
    BY <2>3, NoBytes
  <2>5. SenderInv'
    BY <1>0, <1>3, <1>5, <1>16, <2>2, <2>3, <2>4 DEF SenderInv, Sending
  <2>6. HistoryInv'
    BY <1>0, <1>3, <2>1 DEF HistoryInv
  <2>7. next + Len(left) = written + Len(rest)
    <3>1. Len(left) = Len(rest) - n
      BY <1>10
    <3>2. QED
      BY <1>6, <1>8, <1>9, <3>1
  <2>8. SentInv(bytes, start, p, next)'
    <3>1. posted' = posted /\ cut' = cut
      BY <1>3, <2>1
    <3>2. LastStart(start, p)' = LastStart(start, p) /\ PostedEnd(start)' = PostedEnd(start)
      BY <3>1 DEF LastStart, PostedEnd
    <3>3. Holds(bytes, next, left)
      BY <1>10
    <3>4. /\ sender'.rest = left /\ sender'.rest # <<>> /\ sender'.msg = msg
          /\ next + Len(left) = LastStart(start, p) + Len(msg) + 2
      BY <1>5, <1>13, <2>2, <2>4, <2>7
    <3>5. QED
      BY <1>13, <3>1, <3>2, <3>3, <3>4 DEF SentInv, Holds
  <2>9. PlaceInv(bytes, start, p, at)'
    BY <1>3, <1>14, <2>1 DEF PlaceInv, AtMessage, AtText, AtJunk, PostedEnd
  <2>10. QED
    BY <1>11, <1>12, <1>15, <2>5, <2>6, <2>8, <2>9, Kept
<1>18. CASE n = Len(rest)
  <2> DEFINE empty == <<>>
             pc == IF sender.pc = "panic" THEN "closed" ELSE "idle"
  <2>1. ~(Taken < Len(sender.rest))
    BY <1>4, <1>6, <1>8, <1>18
  <2>2. /\ sender' = [sender EXCEPT !.rest = empty, !.pc = pc]
        /\ posted' = IF cut THEN posted ELSE Append(posted, sender.msg)
    BY <2>1, Zenon DEF SendPart
  <2>3. empty = <<>> /\ empty \in Seq(Nat) /\ Len(empty) = 0
    BY NoBytes, Zenon
  <2>4. pc \in {"idle", "closed"} /\ (sender.pc = "panic" => pc = "closed")
    OBVIOUS
  <2> HIDE DEF empty, pc
  <2>5. /\ sender'.pc = pc /\ sender'.msg = sender.msg /\ sender'.rest = empty
        /\ sender' \in Senders
    BY <1>16, <2>2, <2>3, <2>4 DEF Senders
  <2>6. next = LastStart(start, p) + Len(msg) + 2
    BY <1>9, <1>13, <1>18
  <2>7. Len(empty) <= Len(msg) + 2
    BY <1>6, <2>3
  <2>8. SenderInv'
    BY <1>0, <1>3, <1>5, <1>16, <2>3, <2>4, <2>5, <2>7 DEF SenderInv, Sending
  <2>9. CASE cut
    <3>1. posted' = posted
      BY <2>2, <2>9
    <3>2. HistoryInv'
      BY <1>0, <1>3, <3>1 DEF HistoryInv
    <3>3. Holds(bytes, next, empty)
      BY <2>3 DEF Holds
    <3>4. next + Len(empty) = next
      BY <2>3
    <3>5. SentInv(bytes, start, p, next)'
      BY <1>3, <1>5, <1>13, <2>5, <2>6, <2>9, <3>1, <3>3, <3>4
         DEF SentInv, PostedEnd, LastStart, Holds
    <3>6. PlaceInv(bytes, start, p, at)'
      BY <1>3, <1>14, <3>1 DEF PlaceInv, AtMessage, AtText, AtJunk, PostedEnd
    <3>7. QED
      BY <1>11, <1>12, <1>15, <2>8, <3>2, <3>5, <3>6, Kept
  <2>10. CASE ~cut
    <3>1. PICK old \in Seq(Messages) : old = posted
      BY <1>0 DEF HistoryInv
    <3>2. PICK l \in Nat : l = Len(old)
      BY <3>1
    <3>3. posted' = Append(old, msg)
      BY <1>5, <2>2, <2>10, <3>1
    <3>4. /\ posted' \in Seq(Messages) /\ Len(posted') = l + 1
          /\ posted'[l + 1] = msg
          /\ \A k \in 1 .. l : posted'[k] = old[k]
      BY <3>2, <3>3, AppendProperties
    <3>5. HistoryInv'
      BY <1>0, <1>3, <3>4 DEF HistoryInv
    <3>6. PICK e \in Nat : e = PostedEnd(start)
      BY <1>0, Counts
    <3>7. /\ LastStart(start, p) = e /\ start[l + 1] = e
          /\ next = e + Len(msg) + 2
      BY <2>6, <2>10, <3>1, <3>2, <3>6 DEF LastStart, PostedEnd
    <3>8. PICK extended \in Places :
            /\ extended[l + 2] = next
            /\ \A k \in 1 .. l + 1 : extended[k] = start[k]
      BY NextStart
    <3>9. l + 1 \in 1 .. l + 1 /\ l + 1 + 1 = l + 2
      OBVIOUS
    <3>10. PostedEnd(extended)' = next /\ LastStart(extended, p)' = next
      BY <1>3, <2>10, <3>4, <3>8, <3>9 DEF PostedEnd, LastStart
    <3>11. ASSUME NEW k \in 1 .. l + 1
           PROVE  /\ extended[k + 1] = extended[k] + Len(posted'[k]) + 2
                  /\ extended[k + 1] <= next
                  /\ Holds(bytes, extended[k], Frame(posted'[k]))
      <4>1. CASE k = l + 1
        <5>1. extended[k + 1] = next /\ extended[k] = e /\ posted'[k] = msg
          BY <3>4, <3>7, <3>8, <3>9, <4>1
        <5>2. QED
          BY <1>13, <3>7, <5>1
      <4>2. CASE k # l + 1
        <5>1. k \in 1 .. l /\ k + 1 \in 1 .. l + 1 /\ k \in 1 .. Len(posted)
          BY <3>1, <3>2, <4>2
        <5>2. /\ start[k + 1] = start[k] + Len(posted[k]) + 2
              /\ start[k + 1] <= e
              /\ Holds(bytes, start[k], Frame(posted[k]))
          BY <1>13, <3>6, <5>1 DEF SentInv
        <5>3. extended[k + 1] = start[k + 1] /\ extended[k] = start[k]
          BY <3>8, <5>1
        <5>4. posted'[k] = posted[k]
          BY <3>1, <3>4, <5>1
        <5>5. start[k + 1] \in Nat
          BY <1>0, <5>1, Counts
        <5>6. start[k + 1] <= next
          BY <1>6, <3>7, <5>2, <5>5
        <5>7. QED
          BY <5>2, <5>3, <5>4, <5>6
      <4>3. QED
        BY <4>1, <4>2
    <3>12. Holds(bytes, next, empty)
      BY <2>3 DEF Holds
    <3>13. SentInv(bytes, extended, p, next)'
      BY <1>3, <2>3, <2>5, <2>10, <3>4, <3>10, <3>11, <3>12 DEF SentInv, Holds
    <3>14. PlaceInv(bytes, extended, p, at)'
      <4>1. ASSUME Len(delivered) <= Len(posted)
            PROVE  /\ extended[Len(delivered) + 1] = start[Len(delivered) + 1]
                   /\ Len(delivered) <= Len(posted')
        <5>1. Len(delivered) \in Nat
          BY <1>0, <1>1, Counts
        <5>2. Len(delivered) + 1 \in 1 .. l + 1 /\ Len(delivered) <= l + 1
          BY <3>1, <3>2, <4>1, <5>1
        <5>3. QED
          BY <3>4, <3>8, <5>2
      <4>2. AtMessage(start, at) => AtMessage(extended, at)'
        BY <1>3, <4>1 DEF AtMessage
      <4>3. AtText(bytes, start, p, at) => AtText(bytes, extended, p, at)'
        BY <1>3, <2>10, <4>1 DEF AtText
      <4>4. ~AtJunk(start, p, at)
        BY <2>10 DEF AtJunk
      <4>5. QED
        BY <1>3, <1>14, <4>2, <4>3, <4>4 DEF PlaceInv
    <3>15. QED
      BY <1>11, <1>12, <1>15, <2>8, <3>5, <3>8, <3>13, <3>14, Kept
  <2>11. QED
    BY <2>9, <2>10
<1>19. QED
  BY <1>6, <1>8, <1>17, <1>18

LEMMA NextControl == ControlInv /\ [Next]_vars => ControlInv'
<1> SUFFICES ASSUME ControlInv, [Next]_vars PROVE ControlInv'
  OBVIOUS
<1>1. CASE BeginSend
  BY <1>1, BeginSendKeeps
<1>2. CASE SendPart
  BY <1>2, SendPartKeeps
<1>3. CASE SendFails \/ Vanish
  <2>1. SenderGone /\ UNCHANGED <<platform, stream, receiver, history>>
    BY <1>3 DEF SendFails, Vanish
  <2>2. QED
    BY <2>1, SenderCloses
<1>4. CASE Panic
  BY <1>4, PanicKeeps
<1>5. CASE EventRead
  BY <1>5, EventReadKeeps
<1>6. CASE ReadPart
  BY <1>6, ReadPartKeeps
<1>7. CASE ReadEnd
  BY <1>7, ReceiverCloses DEF ReadEnd
<1>8. CASE ReadTimesOut
  BY <1>8, ReceiverCloses DEF ReadTimesOut
<1>9. CASE Leave
  BY <1>9, ReceiverCloses DEF Leave
<1>10. CASE ReadNothing
  BY <1>10, ReadNothingKeeps
<1>11. CASE LengthRead
  BY <1>11, LengthReadKeeps
<1>12. CASE PayloadRead
  BY <1>12, PayloadReadKeeps
<1>13. CASE UNCHANGED vars
  <2>1. UNCHANGED <<platform, sender, stream, receiver, posted, delivered, cut, late>>
    BY <1>13 DEF vars, history
  <2>2. PICK bytes, start \in Places :
          \E p, at, read, written \in Nat : WireInv(bytes, start, p, at, read, written)
    BY DEF ControlInv
  <2>3. PICK p, at, read, written \in Nat : WireInv(bytes, start, p, at, read, written)
    BY <2>2
  <2>4. SenderInv' /\ HistoryInv' /\ RefusesOnlyJunk'
    BY <2>1 DEF ControlInv, SenderInv, HistoryInv, RefusesOnlyJunk, Sending
  <2>5. SentInv(bytes, start, p, written)'
    BY <2>1, <2>3 DEF WireInv, SentInv, PostedEnd, LastStart, Holds
  <2>6. StreamInv(bytes, read, written)' /\ ReadInv(bytes, at, read)'
    BY <2>1, <2>3 DEF WireInv, StreamInv, ReadInv, Holds
  <2>7. PlaceInv(bytes, start, p, at)'
    BY <2>1, <2>3 DEF WireInv, PlaceInv, AtMessage, AtText, AtJunk, PostedEnd
  <2>8. QED
    BY <2>4, <2>5, <2>6, <2>7, Kept
<1>14. QED
  BY <1>1, <1>2, <1>3, <1>4, <1>5, <1>6, <1>7, <1>8, <1>9, <1>10, <1>11, <1>12, <1>13
     DEF Next, SenderRuns, ReceiverRuns

\* The bytes of the stream are always those of the messages, and both ends are where
\* they should be.
THEOREM ControlInvariance == Spec => []ControlInv
<1>1. Init => ControlInv
  BY InitControl
<1>2. ControlInv /\ [Next]_vars => ControlInv'
  BY NextControl
<1>3. QED
  BY <1>1, <1>2, PTL DEF Spec

\* event_read() throws or closes over what it read only when a message was cut by a
\* fatal signal or its text came late: what a peer sends whole is accepted.
THEOREM NothingSentIsRefused == Spec => []RefusesOnlyJunk
<1>1. ControlInv => RefusesOnlyJunk
  BY DEF ControlInv
<1>2. QED
  BY <1>1, ControlInvariance, PTL

-----------------------------------------------------------------------------
(* What is under way.                                                      *)

\* The messages behind the first d.
Behind(s, d) == SubSeq(s, d + 1, Len(s))

LEMMA BehindIsSeq ==
  ASSUME NEW s \in Seq(Messages), NEW d \in Nat
  PROVE  Behind(s, d) \in Seq(Messages)
<1>1. Len(s) \in Nat /\ \A i \in 1 .. Len(s) : s[i] \in Messages
  OBVIOUS
<1>2. \A i \in d + 1 .. Len(s) : s[i] \in Messages
  BY <1>1
<1>3. QED
  BY <1>1, <1>2, SubSeqProperties DEF Behind

\* One more is posted.
LEMMA BehindGrows ==
  ASSUME NEW s \in Seq(Messages), NEW m \in Messages, NEW d \in 0 .. Len(s)
  PROVE  Behind(Append(s, m), d) = Append(Behind(s, d), m)
<1> DEFINE longer == Append(s, m)
<1>0. PICK l \in Nat : l = Len(s) /\ d <= l /\ d \in Nat
  OBVIOUS
<1>1. /\ longer \in Seq(Messages) /\ Len(longer) = l + 1
      /\ \A i \in 1 .. l : longer[i] = s[i]
      /\ longer[l + 1] = m
  BY <1>0, AppendProperties
<1> HIDE DEF longer
<1> DEFINE a == SubSeq(longer, d + 1, l + 1)
           b == SubSeq(s, d + 1, l)
<1>2. l + 1 \in Nat /\ d <= l + 1 /\ l + 1 <= Len(longer) /\ l <= Len(s)
  BY <1>0, <1>1
<1>3. /\ a \in Seq(Messages) /\ Len(a) = l + 1 - d
      /\ \A i \in 1 .. l + 1 - d : a[i] = longer[d + i]
  BY <1>0, <1>1, <1>2, Part
<1>4. /\ b \in Seq(Messages) /\ Len(b) = l - d
      /\ \A i \in 1 .. l - d : b[i] = s[d + i]
  BY <1>0, <1>2, Part
<1> HIDE DEF a, b
<1> DEFINE c == Append(b, m)
<1>5. /\ c \in Seq(Messages) /\ Len(c) = l - d + 1
      /\ \A i \in 1 .. l - d : c[i] = b[i]
      /\ c[l - d + 1] = m
  <2>1. l - d + 1 \in Nat /\ 1 <= l - d + 1 /\ l - d = Len(b)
    BY <1>0, <1>4
  <2>2. QED
    BY <1>4, <2>1, AppendProperties
<1> HIDE DEF c
<1>6. ASSUME NEW i \in Nat, 1 <= i, i <= l + 1 - d
      PROVE  a[i] = c[i]
  <2>1. CASE i <= l - d
    <3>1. i \in 1 .. l - d /\ i \in 1 .. l + 1 - d /\ d + i \in 1 .. l
      BY <1>0, <1>6, <2>1
    <3>2. a[i] = longer[d + i] /\ longer[d + i] = s[d + i]
      BY <1>1, <1>3, <3>1
    <3>3. c[i] = b[i] /\ b[i] = s[d + i]
      BY <1>4, <1>5, <3>1
    <3>4. QED
      BY <3>2, <3>3
  <2>2. CASE i > l - d
    <3>1. i = l - d + 1 /\ d + i = l + 1 /\ i \in 1 .. l + 1 - d
      BY <1>0, <1>6, <2>2
    <3>2. a[i] = longer[d + i] /\ c[i] = m
      BY <1>3, <1>5, <3>1
    <3>3. QED
      BY <1>1, <3>1, <3>2
  <2>3. QED
    BY <1>0, <2>1, <2>2
<1>7. Len(a) = Len(c) /\ \A i \in 1 .. Len(a) : i \in Nat /\ 1 <= i /\ i <= l + 1 - d
  BY <1>0, <1>3, <1>5
<1>8. \A i \in 1 .. Len(a) : a[i] = c[i]
  BY <1>6, <1>7
<1>9. a = c
  BY <1>3, <1>5, <1>7, <1>8, SeqEqual
<1>10. QED
  BY <1>0, <1>1, <1>9 DEF Behind, a, b, c, longer

\* The oldest one is taken.
LEMMA BehindShrinks ==
  ASSUME NEW s \in Seq(Messages), NEW d \in Nat, d < Len(s)
  PROVE  /\ Behind(s, d) # <<>>
         /\ Head(Behind(s, d)) = s[d + 1]
         /\ Tail(Behind(s, d)) = Behind(s, d + 1)
<1>1. Len(s) \in Nat /\ d + 1 \in 1 .. Len(s) /\ Len(s) \in d + 1 .. Len(s)
  OBVIOUS
<1>2. /\ Head(SubSeq(s, d + 1, Len(s))) = s[d + 1]
      /\ Tail(SubSeq(s, d + 1, Len(s))) = SubSeq(s, d + 1 + 1, Len(s))
  BY <1>1, HeadTailOfSubSeq
<1>3. Len(SubSeq(s, d + 1, Len(s))) # 0
  <2>1. \A i \in d + 1 .. Len(s) : s[i] \in Messages
    BY <1>1
  <2>2. Len(SubSeq(s, d + 1, Len(s))) =
          IF d + 1 <= Len(s) THEN Len(s) - (d + 1) + 1 ELSE 0
    BY <1>1, <2>1, SubSeqProperties
  <2>3. QED
    BY <1>1, <2>2
<1>4. Behind(s, d) # <<>>
  BY <1>3, NoBytes DEF Behind
<1>5. QED
  BY <1>2, <1>4 DEF Behind

LEMMA NothingBehind ==
  ASSUME NEW s \in Seq(Messages), NEW d \in Nat, d >= Len(s)
  PROVE  Behind(s, d) = <<>>
<1>1. Len(s) \in Int /\ Len(s) < d + 1
  OBVIOUS
<1>2. QED
  BY <1>1, SubSeqEmpty DEF Behind

\* Junk behind messages.
LEMMA SpoiltQueue ==
  ASSUME NEW q \in Seq(Messages)
  PROVE  /\ q \o <<Junk>> = Append(q, Junk) /\ q \o <<>> = q
         /\ SubSeq(q, 1, Len(q)) = q
         /\ Len(q) \in Nat
         /\ Append(q, Junk) # <<>>
         /\ q # <<>> => /\ Head(Append(q, Junk)) = Head(q)
                       /\ Tail(Append(q, Junk)) = Append(Tail(q), Junk)
         /\ \A i \in 1 .. Len(q) : q[i] # Junk
<1>1. q \o <<>> = q /\ SubSeq(q, 1, Len(q)) = q
  BY ConcatEmptySeq, SubSeqFull
<1>2. Len(q) \in Nat /\ \A i \in 1 .. Len(q) : q[i] # Junk
  BY JunkAssumption
<1> DEFINE S == Messages \cup {Junk}
<1>3. q \in Seq(S) /\ Junk \in S
  OBVIOUS
<1> HIDE DEF S
<1>4. q \o <<Junk>> = Append(q, Junk) /\ Append(q, Junk) # <<>>
  BY <1>3, AppendIsConcat, AppendProperties
<1>5. /\ Head(Append(q, Junk)) = IF q = <<>> THEN Junk ELSE Head(q)
      /\ Tail(Append(q, Junk)) = IF q = <<>> THEN <<>> ELSE Append(Tail(q), Junk)
  BY <1>3, HeadTailAppend
<1>6. QED
  BY <1>1, <1>2, <1>4, <1>5

\* What is under way, put together.
QueueInv ==
  LET q == Behind(posted, Len(delivered))
  IN  /\ q \in Seq(Messages)
      /\ late => UnderWay = <<Junk>>
      /\ ~late /\ ~cut => UnderWay = q
      /\ ~late /\ cut => UnderWay = Append(q, Junk)
      /\ Len(UnderWay) \in Nat

LEMMA HistoryMakesQueue == HistoryInv => QueueInv
<1> SUFFICES ASSUME HistoryInv PROVE QueueInv
  OBVIOUS
<1> DEFINE q == Behind(posted, Len(delivered))
<1>1. posted \in Seq(Messages) /\ Len(delivered) \in Nat /\ cut \in BOOLEAN /\ late \in BOOLEAN
  BY DEF HistoryInv
<1>2. q \in Seq(Messages)
  BY <1>1, BehindIsSeq
<1>3. UnderWay = IF late THEN <<Junk>> ELSE q \o (IF cut THEN <<Junk>> ELSE <<>>)
  BY DEF UnderWay, Behind
<1> HIDE DEF q
<1>4. late => UnderWay = <<Junk>>
  BY <1>3
<1>5. ~late /\ ~cut => UnderWay = q
  BY <1>2, <1>3, SpoiltQueue
<1>6. ~late /\ cut => UnderWay = Append(q, Junk)
  BY <1>2, <1>3, SpoiltQueue
<1>7. Len(UnderWay) \in Nat
  <2>1. CASE late
    <3>1. Len(<<Junk>>) = 1
      OBVIOUS
    <3>2. QED
      BY <1>4, <2>1, <3>1
  <2>2. CASE ~late /\ ~cut
    BY <1>2, <1>5, <2>2
  <2>3. CASE ~late /\ cut
    <3>1. q \in Seq(Messages \cup {Junk}) /\ Junk \in Messages \cup {Junk}
      BY <1>2
    <3>2. Len(Append(q, Junk)) = Len(q) + 1 /\ Len(q) \in Nat
      BY <1>2, <3>1, AppendProperties
    <3>3. QED
      BY <1>6, <2>3, <3>2
  <2>4. QED
    BY <2>1, <2>2, <2>3
<1>8. QED
  BY <1>2, <1>4, <1>5, <1>6, <1>7 DEF QueueInv, q

-----------------------------------------------------------------------------
(* The refinement.                                                         *)

\* A step that the users do not see.
LEMMA Unseen ==
  ASSUME UNCHANGED <<posted, delivered, cut, late>>,
         receiver'.pc = "closed" <=> receiver.pc = "closed"
  PROVE  UNCHANGED Link!linkVars
<1>1. UnderWay' = UnderWay
  BY DEF UnderWay
<1>2. (receiver.pc # "closed")' = (receiver.pc # "closed")
  OBVIOUS
<1>3. QED
  BY <1>1, <1>2 DEF Link!linkVars

\* The receiver closes the link.
LEMMA ClosingIsClose ==
  ASSUME NEW why, CloseLink(why), UNCHANGED <<posted, delivered, cut, late>>,
         receiver \in Receivers
  PROVE  Link!LinkNext
<1> DEFINE empty == <<>>
<1>1. receiver' = [receiver EXCEPT !.pc = "closed", !.got = empty, !.why = why]
  BY DEF CloseLink
<1> HIDE DEF empty
<1>2. receiver'.pc = "closed"
  BY <1>1 DEF Receivers
<1>3. UnderWay' = UnderWay
  BY DEF UnderWay
<1>4. Link!Close
  BY <1>2, <1>3 DEF Link!Close
<1>5. QED
  BY <1>4 DEF Link!LinkNext

\* A step that spoils what is under way behind the n-th message.
LEMMA SpoilingIsSpoil ==
  ASSUME NEW n \in 0 .. Len(UnderWay),
         UnderWay' = Append(SubSeq(UnderWay, 1, n), Junk),
         delivered' = delivered,
         receiver'.pc = "closed" <=> receiver.pc = "closed"
  PROVE  Link!LinkNext
<1>1. (receiver.pc # "closed")' = (receiver.pc # "closed")
  OBVIOUS
<1>2. Link!Spoil
  BY <1>1 DEF Link!Spoil
<1>3. QED
  BY <1>2 DEF Link!LinkNext

\* send() took the end of a message: it is posted.
LEMMA SendPartLinks ==
  ASSUME ControlInv, QueueInv, QueueInv', SendPart
  PROVE  Link!LinkNext \/ UNCHANGED Link!linkVars
<1>0. SenderInv /\ HistoryInv
  BY DEF ControlInv
<1>1. /\ Sending /\ receiver.pc # "closed"
      /\ UNCHANGED <<receiver, delivered, cut, late>>
  BY DEF SendPart
<1>2. receiver'.pc = "closed" <=> receiver.pc = "closed"
  BY <1>1
<1>3. CASE Taken < Len(sender.rest) \/ cut
  <2>1. posted' = posted
    BY <1>3 DEF SendPart
  <2>2. QED
    BY <1>1, <1>2, <2>1, Unseen
<1>4. CASE ~(Taken < Len(sender.rest)) /\ ~cut
  <2>1. PICK m \in Messages : m = sender.msg
    BY <1>0, <1>1 DEF SenderInv
  <2>2. posted' = Append(posted, m)
    BY <1>4, <2>1 DEF SendPart
  <2>3. (late' <=> late) /\ ~cut' /\ delivered' = delivered
    BY <1>1, <1>4
  <2>4. CASE late
    <3>1. UnderWay' = UnderWay
      BY <2>3, <2>4 DEF QueueInv
    <3>2. (receiver.pc # "closed")' = (receiver.pc # "closed")
      BY <1>1
    <3>3. QED
      BY <2>3, <3>1, <3>2 DEF Link!linkVars
  <2>5. CASE ~late
    <3>1. PICK bytes, start \in Places :
            \E p, at, read, written \in Nat : WireInv(bytes, start, p, at, read, written)
      BY DEF ControlInv
    <3>2. PICK p, at, read, written \in Nat : WireInv(bytes, start, p, at, read, written)
      BY <3>1
    <3>3. Len(delivered) <= Len(posted)
      BY <1>1, <1>4, <2>5, <3>2 DEF WireInv, PlaceInv, AtMessage, AtText, AtJunk
    <3>4. posted \in Seq(Messages) /\ Len(delivered) \in 0 .. Len(posted)
      BY <1>0, <3>1, <3>3, Counts DEF HistoryInv
    <3> DEFINE q == Behind(posted, Len(delivered))
    <3>5. UnderWay = q /\ q \in Seq(Messages)
      BY <1>4, <2>5 DEF QueueInv
    <3>6. UnderWay' = Behind(posted', Len(delivered'))
      BY <2>3, <2>5 DEF QueueInv
    <3>7. Behind(posted', Len(delivered')) = Append(q, m)
      BY <2>2, <2>3, <3>4, BehindGrows
    <3> HIDE DEF q
    <3>8. UnderWay' = Append(UnderWay, m)
      BY <3>5, <3>6, <3>7
    <3>9. \A i \in 1 .. Len(UnderWay) : UnderWay[i] # Junk
      BY <3>5, SpoiltQueue
    <3>10. (receiver.pc # "closed")' = (receiver.pc # "closed")
      BY <1>1
    <3>11. Link!Post
      BY <2>3, <3>8, <3>9, <3>10 DEF Link!Post, Link!HasJunk
    <3>12. QED
      BY <3>11 DEF Link!LinkNext
  <2>6. QED
    BY <2>4, <2>5
<1>5. QED
  BY <1>3, <1>4

\* do_panic() leaves a fragment behind.
LEMMA PanicLinks ==
  ASSUME ControlInv, QueueInv, QueueInv', Panic
  PROVE  Link!LinkNext \/ UNCHANGED Link!linkVars
<1>0. SenderInv /\ HistoryInv
  BY DEF ControlInv
<1>1. /\ UNCHANGED <<receiver, posted, delivered, late>>
      /\ sender.pc \in {"idle", "sending"} /\ cut' \in BOOLEAN
  <2>1. /\ UNCHANGED <<receiver, posted, delivered, late>>
        /\ sender.pc \in {"idle", "sending"}
    BY DEF Panic
  <2>2. cut \in BOOLEAN
    BY <1>0 DEF HistoryInv
  <2>3. cut' \in BOOLEAN
    BY <2>2 DEF Panic
  <2>4. QED
    BY <2>1, <2>3
<1>2. ~cut
  BY <1>0, <1>1 DEF SenderInv
<1>3. receiver'.pc = "closed" <=> receiver.pc = "closed"
  BY <1>1
<1>4. CASE ~cut'
  <2>1. cut' = cut
    <3>1. cut \in BOOLEAN
      BY <1>0 DEF HistoryInv
    <3>2. QED
      BY <1>1, <1>2, <1>4, <3>1
  <2>2. QED
    BY <1>1, <1>3, <2>1, Unseen
<1>5. CASE cut' /\ late
  <2>1. (late' <=> late) /\ delivered' = delivered
    BY <1>1
  <2>2. UnderWay' = UnderWay
    BY <1>5, <2>1 DEF QueueInv
  <2>3. (receiver.pc # "closed")' = (receiver.pc # "closed")
    BY <1>1
  <2>4. QED
    BY <2>1, <2>2, <2>3 DEF Link!linkVars
<1>6. CASE cut' /\ ~late
  <2>1. (late' <=> late) /\ delivered' = delivered /\ posted' = posted
    BY <1>1
  <2> DEFINE q == Behind(posted, Len(delivered))
  <2>2. UnderWay = q /\ q \in Seq(Messages)
    BY <1>2, <1>6 DEF QueueInv
  <2>3. UnderWay' = Append(q, Junk)
    BY <1>6, <2>1 DEF QueueInv
  <2> HIDE DEF q
  <2>4. SubSeq(q, 1, Len(q)) = q /\ Len(q) \in 0 .. Len(q)
    BY <2>2, SpoiltQueue
  <2>5. /\ Len(UnderWay) \in 0 .. Len(UnderWay)
        /\ UnderWay' = Append(SubSeq(UnderWay, 1, Len(UnderWay)), Junk)
    BY <2>2, <2>3, <2>4
  <2>6. QED
    BY <1>3, <2>1, <2>5, SpoilingIsSpoil
<1>7. QED
  BY <1>4, <1>5, <1>6

\* event_read() returns without the text of a message.
LEMMA ReadNothingLinks ==
  ASSUME ControlInv, QueueInv, QueueInv', ReadNothing
  PROVE  Link!LinkNext \/ UNCHANGED Link!linkVars
<1>1. PICK bytes, start \in Places :
        \E p, at, read, written \in Nat : WireInv(bytes, start, p, at, read, written)
  BY DEF ControlInv
<1>2. PICK p, at, read, written \in Nat : WireInv(bytes, start, p, at, read, written)
  BY <1>1
<1>3. /\ receiver \in Receivers /\ receiver.pc # "closed" /\ late \in BOOLEAN
      /\ UNCHANGED <<posted, delivered, cut>>
      /\ late' = (late \/ receiver.pc = "payload")
      /\ receiver' = [receiver EXCEPT !.pc = "idle"]
  BY <1>2 DEF ControlInv, HistoryInv, WireInv, ReadInv, ReadNothing, Reading
<1>4. receiver'.pc = "idle"
  BY <1>3 DEF Receivers
<1>5. receiver'.pc = "closed" <=> receiver.pc = "closed"
  BY <1>3, <1>4
<1>6. CASE late' = late
  BY <1>3, <1>5, <1>6, Unseen
<1>7. CASE late' # late
  <2>1. late'
    BY <1>3, <1>7
  <2>2. UnderWay' = <<Junk>> /\ Len(UnderWay) \in Nat
    BY <2>1 DEF QueueInv
  <2>3. SubSeq(UnderWay, 1, 0) = <<>>
    BY SubSeqEmpty
  <2>4. Append(<<>>, Junk) = <<Junk>>
    OBVIOUS
  <2>5. 0 \in 0 .. Len(UnderWay) /\ UnderWay' = Append(SubSeq(UnderWay, 1, 0), Junk)
    BY <2>2, <2>3, <2>4
  <2>6. QED
    BY <1>3, <1>5, <2>5, SpoilingIsSpoil
<1>8. QED
  BY <1>6, <1>7

\* A sequence is the front of what an element was appended to.
LEMMA FrontOfAppended ==
  ASSUME NEW S, NEW s \in Seq(S), NEW e \in S
  PROVE  /\ Len(Append(s, e)) = Len(s) + 1
         /\ SubSeq(Append(s, e), 1, Len(s)) = s
         /\ Append(s, e)[Len(Append(s, e))] = e
<1> DEFINE longer == Append(s, e)
           front == SubSeq(longer, 1, Len(s))
<1>1. /\ longer \in Seq(S) /\ Len(longer) = Len(s) + 1 /\ Len(s) \in Nat
      /\ \A i \in 1 .. Len(s) : longer[i] = s[i]
      /\ longer[Len(s) + 1] = e
  BY AppendProperties
<1> HIDE DEF longer
<1>2. \A i \in 1 .. Len(s) : longer[i] \in S
  BY <1>1
<1>3. /\ front \in Seq(S)
      /\ Len(front) = IF 1 <= Len(s) THEN Len(s) - 1 + 1 ELSE 0
      /\ \A i \in 1 .. Len(s) - 1 + 1 : front[i] = longer[1 + i - 1]
  BY <1>1, <1>2, SubSeqProperties
<1> HIDE DEF front
<1>4. Len(front) = Len(s) /\ \A i \in 1 .. Len(front) : front[i] = s[i]
  BY <1>1, <1>3
<1>5. front = s
  BY <1>3, <1>4, SeqEqual
<1>6. QED
  BY <1>1, <1>5 DEF front, longer

\* A text is handed over: the oldest message, or junk.
LEMMA PayloadReadLinks ==
  ASSUME ControlInv, QueueInv, QueueInv', PayloadRead
  PROVE  Link!LinkNext \/ UNCHANGED Link!linkVars
<1>0. SenderInv /\ HistoryInv
  BY DEF ControlInv
<1>1. PICK bytes, start \in Places :
        \E p, at, read, written \in Nat : WireInv(bytes, start, p, at, read, written)
  BY DEF ControlInv
<1>2. PICK p, at, read, written \in Nat : WireInv(bytes, start, p, at, read, written)
  BY <1>1
<1>3. /\ receiver.pc = "payload" /\ HasRead
      /\ UNCHANGED <<posted, cut, late>>
  BY DEF PayloadRead
<1>4. receiver \in Receivers
  BY <1>2 DEF WireInv, ReadInv
<1>5. PICK got \in Seq(Nat) : got = receiver.got
  BY <1>4, Zenon DEF Receivers
<1>6. CASE IsPrefix(Prefix, receiver.got) /\ receiver.got \notin Shutdowns
  <2>1. CloseLink("invalid") /\ UNCHANGED <<posted, delivered, cut, late>>
    BY <1>6 DEF PayloadRead
  <2>2. QED
    BY <1>4, <2>1, ClosingIsClose
<1>7. CASE ~(IsPrefix(Prefix, receiver.got) /\ receiver.got \notin Shutdowns)
  <2> DEFINE empty == <<>>
  <2>1. /\ delivered' = Append(delivered, receiver.got)
        /\ receiver' = [receiver EXCEPT !.pc = "idle", !.got = empty]
    BY <1>7, Zenon DEF PayloadRead
  <2> HIDE DEF empty
  <2>2. receiver'.pc = "idle"
    BY <1>4, <2>1 DEF Receivers
  <2>3. (receiver.pc # "closed")' = (receiver.pc # "closed") /\ receiver.pc # "closed"
    BY <1>3, <2>2
  <2>4. delivered' = Append(delivered, got)
    BY <1>5, <2>1
  <2>5. PICK d \in Nat : d = Len(delivered)
    BY <1>0, <1>1, Counts
  <2>6. delivered \in Seq(Seq(Nat)) /\ posted \in Seq(Messages)
    BY <1>0 DEF HistoryInv
  <2>7. /\ Len(delivered') = d + 1
        /\ Len(delivered') = Len(delivered) + 1
        /\ SubSeq(delivered', 1, Len(delivered)) = delivered
        /\ delivered'[Len(delivered')] = got
    BY <1>5, <2>4, <2>5, <2>6, FrontOfAppended
  <2>8. (late' <=> late) /\ (cut' <=> cut) /\ posted' = posted
    BY <1>3
  <2> DEFINE q == Behind(posted, d)
             r == Behind(posted, d + 1)
  <2>9. /\ q \in Seq(Messages)
        /\ late => UnderWay = <<Junk>>
        /\ ~late /\ ~cut => UnderWay = q
        /\ ~late /\ cut => UnderWay = Append(q, Junk)
    BY <2>5 DEF QueueInv
  <2>10. /\ r \in Seq(Messages)
         /\ late' => UnderWay' = <<Junk>>
         /\ ~late' /\ ~cut' => UnderWay' = r
         /\ ~late' /\ cut' => UnderWay' = Append(r, Junk)
    BY <2>7, <2>8 DEF QueueInv
  <2>11. CASE ~late /\ d < Len(posted) /\ got = posted[d + 1]
    <3>1. q # <<>> /\ Head(q) = got /\ Tail(q) = r
      BY <2>6, <2>11, BehindShrinks
    <3>2. got # Junk
      <4>1. d + 1 \in 1 .. Len(posted)
        BY <2>6, <2>11
      <4>2. got \in Messages
        BY <2>6, <2>11, <4>1
      <4>3. QED
        BY <4>2, JunkAssumption
    <3> HIDE DEF q, r
    <3>3. /\ Append(q, Junk) # <<>> /\ Head(Append(q, Junk)) = got
          /\ Tail(Append(q, Junk)) = Append(r, Junk)
      BY <2>9, <3>1, SpoiltQueue
    <3>4. UnderWay # <<>> /\ Head(UnderWay) = got /\ UnderWay' = Tail(UnderWay)
      <4>1. CASE cut
        BY <2>8, <2>9, <2>10, <2>11, <3>3, <4>1
      <4>2. CASE ~cut
        BY <2>8, <2>9, <2>10, <2>11, <3>1, <4>2
      <4>3. QED
        BY <4>1, <4>2
    <3>5. Link!Take
      BY <2>3, <2>4, <3>2, <3>4 DEF Link!Take
    <3>6. QED
      BY <3>5 DEF Link!LinkNext
  <2>12. CASE cut /\ d >= Len(posted) /\ got \notin Shutdowns
    <3>1. q = <<>> /\ r = <<>>
      <4>1. d + 1 >= Len(posted) /\ d + 1 \in Nat
        BY <2>6, <2>12
      <4>2. QED
        BY <2>6, <2>12, <4>1, NothingBehind
    <3>2. Append(<<>>, Junk) = <<Junk>> /\ <<Junk>> # <<>> /\ Head(<<Junk>>) = Junk
      OBVIOUS
    <3> HIDE DEF q, r
    <3>3. UnderWay = <<Junk>> /\ UnderWay' = <<Junk>>
      <4>1. CASE late
        BY <2>8, <2>9, <2>10, <4>1
      <4>2. CASE ~late
        BY <2>8, <2>9, <2>10, <2>12, <3>1, <3>2, <4>2
      <4>3. QED
        BY <4>1, <4>2
    <3>4. UnderWay # <<>> /\ Head(UnderWay) = Junk /\ UnderWay' = UnderWay
      BY <3>2, <3>3
    <3>5. Link!TakeJunk
      BY <2>3, <2>7, <2>12, <3>4 DEF Link!TakeJunk
    <3>6. QED
      BY <3>5 DEF Link!LinkNext
  <2>13. QED
    BY <1>0, <1>2, <1>3, <1>5, <2>5, <2>11, <2>12, PayloadHere
<1>8. QED
  BY <1>6, <1>7

LEMMA NextLinks ==
  ControlInv /\ QueueInv /\ QueueInv' /\ [Next]_vars => [Link!LinkNext]_(Link!linkVars)
<1> SUFFICES ASSUME ControlInv, QueueInv, QueueInv', [Next]_vars
             PROVE  Link!LinkNext \/ UNCHANGED Link!linkVars
  OBVIOUS
<1>0. receiver \in Receivers
  <2>1. PICK bytes, start \in Places :
          \E p, at, read, written \in Nat : WireInv(bytes, start, p, at, read, written)
    BY DEF ControlInv
  <2>2. QED
    BY <2>1 DEF WireInv, ReadInv
<1>1. CASE BeginSend \/ SendFails \/ Vanish \/ UNCHANGED vars
  <2>1. UNCHANGED <<posted, delivered, cut, late>> /\ receiver' = receiver
    BY <1>1 DEF BeginSend, SendFails, Vanish, vars, history
  <2>2. receiver'.pc = "closed" <=> receiver.pc = "closed"
    BY <2>1
  <2>3. QED
    BY <2>1, <2>2, Unseen
<1>2. CASE SendPart
  BY <1>2, SendPartLinks
<1>3. CASE Panic
  BY <1>3, PanicLinks
<1>4. CASE EventRead
  <2> DEFINE empty == <<>>
  <2>1. /\ receiver.pc = "idle" /\ receiver' = [receiver EXCEPT !.pc = "length", !.got = empty]
        /\ UNCHANGED <<posted, delivered, cut, late>>
    BY <1>4 DEF EventRead, history
  <2> HIDE DEF empty
  <2>2. receiver'.pc = "closed" <=> receiver.pc = "closed"
    BY <1>0, <2>1 DEF Receivers
  <2>3. QED
    BY <2>1, <2>2, Unseen
<1>5. CASE ReadPart
  <2>1. PICK got : receiver' = [receiver EXCEPT !.got = got]
    BY <1>5 DEF ReadPart
  <2>2. UNCHANGED <<posted, delivered, cut, late>>
    BY <1>5 DEF ReadPart, history
  <2>3. receiver'.pc = "closed" <=> receiver.pc = "closed"
    BY <1>0, <2>1 DEF Receivers
  <2>4. QED
    BY <2>2, <2>3, Unseen
<1>6. CASE ReadEnd \/ ReadTimesOut \/ Leave
  <2>1. PICK why : CloseLink(why)
    BY <1>6 DEF ReadEnd, ReadTimesOut, Leave
  <2>2. UNCHANGED <<posted, delivered, cut, late>>
    BY <1>6 DEF ReadEnd, ReadTimesOut, Leave, history
  <2>3. QED
    BY <1>0, <2>1, <2>2, ClosingIsClose
<1>7. CASE ReadNothing
  BY <1>7, ReadNothingLinks
<1>8. CASE LengthRead
  <2>1. UNCHANGED <<posted, delivered, cut, late>> /\ receiver.pc = "length"
    BY <1>8 DEF LengthRead, history
  <2>2. CASE MessageSize(receiver.got) > max_message_size
    <3>1. CloseLink("too long")
      BY <1>8, <2>2 DEF LengthRead
    <3>2. QED
      BY <1>0, <2>1, <3>1, ClosingIsClose
  <2>3. CASE ~(MessageSize(receiver.got) > max_message_size)
    <3> DEFINE empty == <<>>
               size == MessageSize(receiver.got)
    <3>1. receiver' = [receiver EXCEPT !.pc = "payload", !.got = empty, !.size = size]
      BY <1>8, <2>3, Zenon DEF LengthRead
    <3> HIDE DEF empty, size
    <3>2. receiver'.pc = "closed" <=> receiver.pc = "closed"
      BY <1>0, <2>1, <3>1 DEF Receivers
    <3>3. QED
      BY <2>1, <3>2, Unseen
  <2>4. QED
    BY <2>2, <2>3
<1>9. CASE PayloadRead
  BY <1>9, PayloadReadLinks
<1>10. QED
  BY <1>1, <1>2, <1>3, <1>4, <1>5, <1>6, <1>7, <1>8, <1>9
     DEF Next, SenderRuns, ReceiverRuns

LEMMA InitLinks == Init => Link!LinkInit
<1> SUFFICES ASSUME Init PROVE Link!LinkInit
  OBVIOUS
<1>1. posted = <<>> /\ delivered = <<>> /\ ~cut /\ ~late /\ receiver.pc = "idle"
  BY DEF Init
<1>2. HistoryInv
  BY InitControl DEF ControlInv
<1>3. posted \in Seq(Messages) /\ Len(posted) = 0 /\ Len(delivered) = 0
  BY <1>1
<1>4. UnderWay = Behind(posted, Len(delivered))
  BY <1>1, <1>2, HistoryMakesQueue DEF QueueInv
<1>5. Behind(posted, 0) = <<>>
  <2>1. SubSeq(posted, 0 + 1, Len(posted)) = <<>>
    BY <1>3, SubSeqEmpty
  <2>2. QED
    BY <2>1 DEF Behind
<1>6. UnderWay = <<>> /\ (receiver.pc # "closed") = TRUE
  BY <1>1, <1>3, <1>4, <1>5
<1>7. QED
  BY <1>1, <1>6 DEF Link!LinkInit

\* However send() and recv() divide the stream, its users see the link: messages in
\* order, once and unchanged, and never a shutdown that nobody sent.
THEOREM StreamImplementsLink == Spec => ImplementsLink
<1>1. Init => Link!LinkInit
  BY InitLinks
<1>2. ControlInv => QueueInv
  BY HistoryMakesQueue DEF ControlInv
<1>3. ControlInv /\ QueueInv /\ QueueInv' /\ [Next]_vars => [Link!LinkNext]_(Link!linkVars)
  BY NextLinks
<1>4. QED
  BY <1>1, <1>2, <1>3, ControlInvariance, PTL DEF Spec, ImplementsLink, Link!LinkSpec
=============================================================================
