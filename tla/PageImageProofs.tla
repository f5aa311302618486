---------------------------- MODULE PageImageProofs ----------------------------
(***************************************************************************)
(* Proofs about PageImage, for all sizes of pages, headers and records.     *)
(***************************************************************************)
EXTENDS PageImage, TLAPS

-----------------------------------------------------------------------------
(* Remainders: how addresses wrap *)

(* A remainder is below the divisor. *)
LEMMA CounterInRange ==
  ASSUME NEW n \in Nat \ {0}, NEW a \in Nat
  PROVE  a % n \in 0 .. n - 1
  BY SMT

(* Quotient and remainder are the only ones with the remainder below the      *)
(* divisor.                                                                *)
LEMMA RemainderUnique ==
  ASSUME NEW n \in Nat \ {0}, NEW q \in Nat, NEW r \in 0 .. n - 1
  PROVE  (n * q + r) % n = r /\ (n * q + r) \div n = q
<1> DEFINE a == n * q + r
           d == a \div n
           m == a % n
<1>1. a \in Nat /\ n * q \in Nat
  BY SMT
<1>2. d \in Nat /\ m \in 0 .. n - 1 /\ a = n * d + m
  BY <1>1, SMT
<1>3. n * (q - d) = m - r
  BY <1>1, <1>2, SMT
<1>4. d = q
  <2> HIDE DEF a, d, m
  <2>1. CASE q > d
    <3>1. n * (q - d) >= n
      BY <1>2, <2>1, SMT
    <3> QED
      BY <1>2, <1>3, <3>1, SMT
  <2>2. CASE q < d
    <3>1. n * (d - q) >= n
      BY <1>2, <2>2, SMT
    <3>2. n * (q - d) = 0 - n * (d - q)
      BY <1>2, SMT
    <3> QED
      BY <1>2, <1>3, <3>1, <3>2, SMT
  <2> QED
    BY <1>2, <2>1, <2>2, SMT
<1> QED
  BY <1>2, <1>3, <1>4, SMT

(* A number below the divisor is its own remainder. *)
LEMMA RemainderBelow ==
  ASSUME NEW n \in Nat \ {0}, NEW r \in 0 .. n - 1
  PROVE  r % n = r
<1>1. n * 0 + r = r /\ 0 \in Nat
  BY SMT
<1> QED
  BY <1>1, RemainderUnique

(* Running on from an address and wrapping is wrapping once. *)
LEMMA CounterRunsOn ==
  ASSUME NEW n \in Nat \ {0}, NEW a \in Nat
  PROVE  ((a % n) + 1) % n = (a + 1) % n
<1> DEFINE q == a \div n
           r == a % n
<1>1. q \in Nat /\ r \in 0 .. n - 1 /\ a = n * q + r
  BY SMT
<1> HIDE DEF q, r
<1>2. CASE r + 1 < n
  <2>1. r + 1 \in 0 .. n - 1 /\ r + 1 = n * 0 + (r + 1)
    BY <1>1, <1>2, SMT
  <2>2. a + 1 = n * q + (r + 1)
    BY <1>1, SMT
  <2>3. (r + 1) % n = r + 1
    BY <2>1, RemainderUnique
  <2>4. (a + 1) % n = r + 1
    BY <1>1, <2>1, <2>2, RemainderUnique
  <2> QED
    BY <2>3, <2>4 DEF r
<1>3. CASE r + 1 = n
  <2>1. 0 \in 0 .. n - 1 /\ q + 1 \in Nat /\ 1 \in Nat
    BY <1>1, SMT
  <2>2. r + 1 = n * 1 + 0 /\ a + 1 = n * (q + 1) + 0
    BY <1>1, <1>3, SMT
  <2>3. (n * 1 + 0) % n = 0
    BY <2>1, RemainderUnique
  <2>4. (n * (q + 1) + 0) % n = 0
    BY <2>1, RemainderUnique
  <2>5. (r + 1) % n = 0 /\ (a + 1) % n = 0
    BY <2>2, <2>3, <2>4
  <2> QED
    BY <2>5 DEF r
<1> QED
  BY <1>1, <1>2, <1>3, SMT

(* Numbers less than the divisor apart have different remainders. *)
LEMMA RemaindersApart ==
  ASSUME NEW n \in Nat \ {0}, NEW a \in Nat, NEW b \in Nat, a < b, b - a < n
  PROVE  a % n # b % n
<1> SUFFICES ASSUME a % n = b % n PROVE FALSE
  OBVIOUS
<1> DEFINE p == a \div n
           q == b \div n
           r == a % n
<1>1. /\ p \in Nat /\ q \in Nat /\ r \in 0 .. n - 1
      /\ a = n * p + r /\ b = n * q + (b % n)
  BY SMT
<1>2. b = n * q + r
  BY <1>1
<1> HIDE DEF p, q, r
<1>3. n * (q - p) = b - a
  BY <1>1, <1>2, SMT
<1>4. CASE q <= p
  <2>1. n * (p - q) >= 0 /\ n * (q - p) = 0 - n * (p - q)
    BY <1>1, <1>4, SMT
  <2> QED
    BY <1>1, <1>3, <2>1, SMT
<1>5. CASE q > p
  <2>1. n * (q - p) >= n
    BY <1>1, <1>5, SMT
  <2> QED
    BY <1>1, <1>3, <2>1, SMT
<1> QED
  BY <1>1, <1>4, <1>5, SMT

(* As many consecutive numbers as the divisor have every remainder. *)
LEMMA RemainderOccurs ==
  ASSUME NEW n \in Nat \ {0}, NEW s \in Nat, NEW r \in 0 .. n - 1
  PROVE  \E i \in s .. s + n - 1 : i % n = r
<1> DEFINE q == s \div n
           m == s % n
<1>1. q \in Nat /\ m \in 0 .. n - 1 /\ s = n * q + m
  BY SMT
<1> HIDE DEF q, m
<1>2. CASE m <= r
  <2>1. n * q + r \in s .. s + n - 1
    BY <1>1, <1>2, SMT
  <2>2. (n * q + r) % n = r
    BY <1>1, RemainderUnique
  <2> QED
    BY <2>1, <2>2
<1>3. CASE m > r
  <2>1. n * (q + 1) = n * q + n /\ n * q \in Nat /\ q + 1 \in Nat
    BY <1>1, SMT
  <2>2. n * (q + 1) + r \in s .. s + n - 1
    BY <1>1, <1>3, <2>1, SMT
  <2>3. (n * (q + 1) + r) % n = r
    BY <2>1, RemainderUnique
  <2> QED
    BY <2>2, <2>3
<1> QED
  BY <1>1, <1>2, <1>3, SMT

-----------------------------------------------------------------------------
(* Sizes and places *)

LEMMA Sizes ==
  /\ PageSize \in Nat \ {0} /\ HeaderSize \in Nat /\ HeaderSize < PageSize
  /\ CounterSize \in Nat \ {0} /\ CounterSize <= HeaderSize
  /\ ImageSize \in Nat /\ CounterSize <= ImageSize
  /\ MaxFlushes \in Nat
<1>1. BufferedRecords * RecordSize \in Nat
  <2>1. BufferedRecords \in Nat /\ RecordSize \in Nat
    BY ImageAssumption
  <2> QED
    BY <2>1
<1>2. /\ PageSize \in Nat \ {0} /\ HeaderSize \in Nat /\ HeaderSize < PageSize
      /\ CounterSize \in Nat \ {0} /\ CounterSize <= HeaderSize
      /\ MaxFlushes \in Nat
  BY ImageAssumption
<1> QED
  BY <1>1, <1>2 DEF ImageSize

(* Where the byte i of an image goes. *)
Place(i) == (HeaderSize + i) % PageSize

LEMMA PlaceInPage == ASSUME NEW i \in Nat PROVE Place(i) \in Places
<1>1. HeaderSize + i \in Nat
  BY Sizes
<1>2. (HeaderSize + i) % PageSize \in 0 .. PageSize - 1
  BY <1>1, Sizes, CounterInRange
<1> QED
  BY <1>2 DEF Place, Places

(* The byte after it goes to the next address. *)
LEMMA PlacesFollow ==
  ASSUME NEW i \in Nat PROVE NextAddress(Place(i)) = Place(i + 1)
<1> DEFINE p == (HeaderSize + i) % PageSize
<1>1. HeaderSize + i \in Nat /\ HeaderSize + (i + 1) = HeaderSize + i + 1
  BY Sizes
<1>2. p \in 0 .. PageSize - 1
  BY <1>1, Sizes, CounterInRange
<1>3. (p + 1) % PageSize = (HeaderSize + i + 1) % PageSize
  BY <1>1, Sizes, CounterRunsOn
<1>4. (p + 1) % PageSize = NextAddress(p)
  <2> HIDE DEF p
  <2>1. CASE p = PageSize - 1
    <3>1. p + 1 = PageSize * 1 + 0 /\ 1 \in Nat /\ 0 \in 0 .. PageSize - 1
      BY <2>1, Sizes
    <3>2. (PageSize * 1 + 0) % PageSize = 0
      BY <3>1, Sizes, RemainderUnique
    <3> QED
      BY <2>1, <3>1, <3>2 DEF NextAddress
  <2>2. CASE p # PageSize - 1
    <3>1. p + 1 \in 0 .. PageSize - 1
      BY <1>2, <2>2, Sizes
    <3>2. (p + 1) % PageSize = p + 1
      BY <3>1, Sizes, RemainderBelow
    <3> QED
      BY <2>2, <3>2 DEF NextAddress
  <2> QED
    BY <2>1, <2>2
<1> QED
  BY <1>1, <1>3, <1>4 DEF Place

(* Bytes of an image that are less than a page apart do not meet. *)
LEMMA PlacesApart ==
  ASSUME NEW i \in Nat, NEW j \in Nat, i < j, j - i < PageSize
  PROVE  Place(i) # Place(j)
<1>1. /\ HeaderSize + i \in Nat /\ HeaderSize + j \in Nat
      /\ HeaderSize + i < HeaderSize + j
      /\ (HeaderSize + j) - (HeaderSize + i) < PageSize
  BY Sizes
<1> QED
  BY <1>1, Sizes, RemaindersApart DEF Place

(* Of the last PageSize bytes of an image one falls on each address. *)
LEMMA SurvivorFalls ==
  ASSUME ImageSize >= PageSize, NEW a \in Places
  PROVE  /\ Survivor(a) \in ImageSize - PageSize .. ImageSize - 1
         /\ Place(Survivor(a)) = a
<1> DEFINE s == HeaderSize + (ImageSize - PageSize)
<1>1. s \in Nat /\ a \in 0 .. PageSize - 1
  BY Sizes DEF Places
<1>2. PICK k \in s .. s + PageSize - 1 : k % PageSize = a
  BY <1>1, Sizes, RemainderOccurs
<1>3. /\ k - HeaderSize \in ImageSize - PageSize .. ImageSize - 1
      /\ HeaderSize + (k - HeaderSize) = k
  BY <1>1, <1>2, Sizes
<1>4. \E i \in ImageSize - PageSize .. ImageSize - 1 :
        (HeaderSize + i) % PageSize = a
  BY <1>2, <1>3
<1> QED
  BY <1>4 DEF Survivor, Place

-----------------------------------------------------------------------------
(* The invariant *)

(* The chip's address is that of the next byte, and the last PageSize bytes  *)
(* sent are in their places.                                               *)
Sent ==
  step = "send" =>
    /\ flushes \in 1 .. MaxFlushes
    /\ address = Place(sent)
    /\ \A i \in 0 .. sent - 1 :
         sent - i <= PageSize => buf1[Place(i)] = [flush |-> flushes, i |-> i]

IInv == ImageTypeOK /\ (step = "read" => sent <= CounterSize) /\ Sent /\ PageIsTail

LEMMA ByteType ==
  /\ Blank \in ImageByte
  /\ \A n \in 0 .. MaxFlushes, i \in 0 .. ImageSize - 1 : [flush |-> n, i |-> i] \in ImageByte
<1>1. 0 \in 0 .. MaxFlushes /\ 0 \in 0 .. ImageSize - 1
  BY Sizes
<1> QED
  BY <1>1 DEF Blank, ImageByte

LEMMA NextInPage ==
  ASSUME NEW a \in Places PROVE NextAddress(a) \in Places
  BY Sizes DEF Places, NextAddress

LEMMA InitInv == ImageInit => IInv
<1> SUFFICES ASSUME ImageInit PROVE IInv
  OBVIOUS
<1>1. 0 \in Places /\ 0 \in 0 .. ImageSize /\ 0 \in 0 .. MaxFlushes
  BY Sizes DEF Places
<1>2. [a \in Places |-> Blank] \in [Places -> ImageByte]
  BY ByteType
<1>3. <<>> \in Seq(ImageByte)
  OBVIOUS
<1>4. ImageTypeOK
  BY <1>1, <1>2, <1>3 DEF ImageInit, ImageTypeOK
<1>5. PageIsTail
  BY DEF ImageInit, PageIsTail
<1> QED
  BY <1>4, <1>5 DEF ImageInit, IInv, Sent

(* A flush begins: nothing is sent. *)
LEMMA StartKeeps == ASSUME IInv, StartBufferWrite PROVE IInv'
<1>1. ImageTypeOK'
  <2>1. flushes + 1 \in 0 .. MaxFlushes /\ HeaderSize \in Places /\ 0 \in 0 .. ImageSize
    BY Sizes DEF IInv, ImageTypeOK, StartBufferWrite, Places
  <2> QED
    BY <2>1 DEF IInv, ImageTypeOK, StartBufferWrite
<1>2. Sent'
  <2>1. Place(0) = HeaderSize
    <3>1. HeaderSize + 0 = HeaderSize /\ HeaderSize \in 0 .. PageSize - 1
      BY Sizes
    <3>2. HeaderSize % PageSize = HeaderSize
      BY <3>1, Sizes, RemainderBelow
    <3> QED
      BY <3>1, <3>2 DEF Place
  <2>2. flushes' \in 1 .. MaxFlushes
    BY Sizes DEF IInv, ImageTypeOK, StartBufferWrite
  <2>3. \A i \in 0 .. 0 - 1 : FALSE
    BY SMT
  <2> QED
    BY <2>1, <2>2, <2>3 DEF StartBufferWrite, Sent
<1>3. PageIsTail'
  <2>1. 1 .. flushes \subseteq 1 .. flushes'
    BY DEF IInv, ImageTypeOK, StartBufferWrite
  <2>2. array' = array
    BY DEF StartBufferWrite
  <2> QED
    BY <2>1, <2>2 DEF IInv, PageIsTail
<1> QED
  BY <1>1, <1>2, <1>3 DEF IInv, StartBufferWrite

(* A byte is sent: it replaces the one sent a page before. *)
LEMMA SendKeeps == ASSUME IInv, SendImageByte PROVE IInv'
<1>1. /\ step = "send" /\ step' = "send" /\ flushes' = flushes /\ array' = array
      /\ counter' = counter
      /\ sent' = sent + 1 /\ sent \in Nat /\ sent < ImageSize
      /\ address = Place(sent) /\ address' = NextAddress(address)
      /\ flushes \in 1 .. MaxFlushes
      /\ buf1 \in [Places -> ImageByte]
      /\ buf1' = [buf1 EXCEPT ![address] = [flush |-> flushes, i |-> sent]]
  BY Sizes DEF IInv, ImageTypeOK, Sent, SendImageByte
<1>2. Place(sent) \in Places
  BY <1>1, PlaceInPage
<1>3. address' = Place(sent + 1)
  BY <1>1, PlacesFollow
<1>4. ImageTypeOK'
  <2>1. sent + 1 \in 0 .. ImageSize
    BY <1>1, Sizes
  <2>2. [flush |-> flushes, i |-> sent] \in ImageByte
    <3>1. flushes \in 0 .. MaxFlushes /\ sent \in 0 .. ImageSize - 1
      BY <1>1, Sizes
    <3> QED
      BY <3>1, ByteType
  <2>3. buf1' \in [Places -> ImageByte]
    BY <1>1, <2>2
  <2>4. address' \in Places
    BY <1>1, <1>2, NextInPage
  <2> QED
    BY <1>1, <2>1, <2>3, <2>4 DEF IInv, ImageTypeOK
<1>5. \A i \in 0 .. sent : sent + 1 - i <= PageSize =>
        buf1'[Place(i)] = [flush |-> flushes, i |-> i]
  <2> SUFFICES ASSUME NEW i \in 0 .. sent, sent + 1 - i <= PageSize
               PROVE  buf1'[Place(i)] = [flush |-> flushes, i |-> i]
    OBVIOUS
  <2>1. CASE i = sent
    BY <1>1, <1>2, <2>1
  <2>2. CASE i # sent
    <3>1. /\ i \in 0 .. sent - 1 /\ i \in Nat /\ i < sent
          /\ sent - i < PageSize /\ sent - i <= PageSize
      BY <1>1, <2>2, Sizes
    <3>2. Place(i) # Place(sent)
      BY <1>1, <3>1, PlacesApart
    <3>3. Place(i) \in Places
      BY <3>1, PlaceInPage
    <3>4. buf1[Place(i)] = [flush |-> flushes, i |-> i]
      BY <1>1, <3>1 DEF IInv, Sent
    <3>5. buf1'[Place(i)] = buf1[Place(i)]
      BY <1>1, <3>2, <3>3
    <3> QED
      BY <3>4, <3>5
  <2> QED
    BY <2>1, <2>2
<1>6. Sent'
  <2>1. sent + 1 - 1 = sent
    BY <1>1
  <2> QED
    BY <1>1, <1>3, <1>5, <2>1 DEF Sent
<1>7. PageIsTail'
  BY <1>1 DEF IInv, PageIsTail
<1> QED
  BY <1>1, <1>4, <1>6, <1>7 DEF IInv

(* The page becomes what is in the buffer when all of the image is sent. *)
LEMMA WriteKeeps == ASSUME IInv, WriteBuffer PROVE IInv'
<1>1. /\ step = "send" /\ sent = ImageSize /\ array' = buf1 /\ step' = "idle"
      /\ flushes' = flushes /\ flushes \in 1 .. MaxFlushes
      /\ buf1 \in [Places -> ImageByte]
      /\ UNCHANGED <<buf1, address, sent, counter, flushes>>
  BY DEF IInv, ImageTypeOK, Sent, WriteBuffer
<1>2. ImageTypeOK'
  BY <1>1 DEF IInv, ImageTypeOK
<1>3. PageIsTail'
  <2> SUFFICES ASSUME ImageSize >= PageSize
               PROVE  \A a \in Places :
                        buf1[a] = [flush |-> flushes, i |-> Survivor(a)]
    <3>1. flushes \in 1 .. flushes
      BY <1>1
    <3> QED
      BY <1>1, <3>1 DEF PageIsTail
  <2> TAKE a \in Places
  <2>1. /\ Survivor(a) \in ImageSize - PageSize .. ImageSize - 1
        /\ Place(Survivor(a)) = a
    BY SurvivorFalls
  <2>2. PICK i \in ImageSize - PageSize .. ImageSize - 1 : i = Survivor(a)
    BY <2>1
  <2>3. i \in 0 .. sent - 1 /\ sent - i <= PageSize
    BY <1>1, <2>2, Sizes
  <2>4. buf1[Place(i)] = [flush |-> flushes, i |-> i]
    BY <1>1, <2>3 DEF IInv, Sent
  <2> QED
    BY <2>1, <2>2, <2>4
<1> QED
  BY <1>1, <1>2, <1>3 DEF IInv, Sent

(* The scan changes neither buffer nor page. *)
LEMMA ReadKeeps ==
  ASSUME IInv, StartArrayRead \/ ReadByte \/ EndArrayRead PROVE IInv'
<1>1. /\ step' # "send" /\ UNCHANGED <<buf1, array, flushes>>
      /\ buf1 \in [Places -> ImageByte] /\ array \in [Places -> ImageByte]
      /\ sent \in 0 .. ImageSize /\ address \in Places
      /\ counter \in Seq(ImageByte)
  BY DEF IInv, ImageTypeOK, StartArrayRead, ReadByte, EndArrayRead
<1>2. Sent' /\ PageIsTail'
  BY <1>1 DEF IInv, Sent, PageIsTail
<1>3. CASE StartArrayRead
  <2>1. 0 \in Places /\ 0 \in 0 .. ImageSize /\ 0 <= CounterSize /\ <<>> \in Seq(ImageByte)
    BY Sizes DEF Places
  <2> QED
    BY <1>1, <1>2, <1>3, <2>1 DEF IInv, ImageTypeOK, StartArrayRead
<1>4. CASE ReadByte
  <2>1. sent + 1 \in 0 .. ImageSize /\ sent + 1 <= CounterSize
    BY <1>1, <1>4, Sizes DEF ReadByte
  <2>2. NextAddress(address) \in Places
    BY <1>1, NextInPage
  <2>3. array[address] \in ImageByte
    BY <1>1
  <2>4. Append(counter, array[address]) \in Seq(ImageByte)
    BY <1>1, <2>3
  <2> QED
    BY <1>1, <1>2, <1>4, <2>1, <2>2, <2>4 DEF IInv, ImageTypeOK, ReadByte
<1>5. CASE EndArrayRead
  BY <1>1, <1>2, <1>5 DEF IInv, ImageTypeOK, EndArrayRead
<1> QED
  BY <1>3, <1>4, <1>5

LEMMA AlwaysInv == ImageSpec => []IInv
<1>1. ImageInit => IInv
  BY InitInv
<1>2. IInv /\ [ImageNext]_imageVars => IInv'
  <2> SUFFICES ASSUME IInv, [ImageNext]_imageVars PROVE IInv'
    OBVIOUS
  <2>1. CASE UNCHANGED imageVars
    BY <2>1 DEF imageVars, IInv, ImageTypeOK, Sent, PageIsTail
  <2> QED
    BY <2>1, StartKeeps, SendKeeps, WriteKeeps, ReadKeeps DEF ImageNext
<1> QED
  BY <1>1, <1>2, PTL DEF ImageSpec

-----------------------------------------------------------------------------
(* The chip's address stays in the buffer, and the scan reads bytes of pages *)
(* only (dataflash.c, DF_start_buffer_write and DF_start_array_read).       *)
THEOREM TypeCorrect == ImageSpec => []ImageTypeOK
<1>1. IInv => ImageTypeOK
  BY DEF IInv
<1> QED
  BY <1>1, AlwaysInv, PTL

(* However long the image, and wherever it starts: a page holds the tail of  *)
(* one image, and nothing of another (gps_add_to_flash_buffer).             *)
THEOREM PageHoldsTail == ImageSpec => []PageIsTail
<1>1. IInv => PageIsTail
  BY DEF IInv
<1> QED
  BY <1>1, AlwaysInv, PTL

-----------------------------------------------------------------------------
(* The scan's counter *)

(* The scan has read the first bytes of the page, in their order. *)
Read ==
  step = "read" =>
    /\ address = sent /\ Len(counter) = sent
    /\ \A k \in 1 .. sent : counter[k] = array[k - 1]

(* What it took for a counter are the first bytes of a page. *)
CounterIsTail ==
  step # "read" /\ Len(counter) = CounterSize /\ ImageSize >= PageSize =>
    \/ \A k \in 1 .. CounterSize : counter[k] = Blank
    \/ \E n \in 1 .. flushes : \A k \in 1 .. CounterSize :
         counter[k] = [flush |-> n, i |-> Survivor(k - 1)]

(* Reading keeps this, as the page cannot change meanwhile. *)
LEMMA CounterKeeps ==
  IInv /\ Read /\ CounterIsTail /\ [ImageNext]_imageVars => Read' /\ CounterIsTail'
<1> SUFFICES ASSUME IInv, Read, CounterIsTail, [ImageNext]_imageVars
             PROVE  Read' /\ CounterIsTail'
  OBVIOUS
<1>1. ImageTypeOK /\ PageIsTail /\ (step = "read" => sent <= CounterSize)
  BY DEF IInv
<1>2. CASE StartBufferWrite
  <2>1. /\ step = "idle" /\ step' = "send" /\ counter' = counter
        /\ 1 .. flushes \subseteq 1 .. flushes'
    BY <1>1, <1>2 DEF StartBufferWrite, ImageTypeOK
  <2> QED
    BY <2>1 DEF Read, CounterIsTail
<1>3. CASE SendImageByte \/ WriteBuffer
  <2>1. step # "read" /\ step' # "read" /\ UNCHANGED <<counter, flushes>>
    BY <1>3 DEF SendImageByte, WriteBuffer
  <2> QED
    BY <2>1 DEF Read, CounterIsTail
<1>4. CASE StartArrayRead
  <2>1. step' = "read" /\ address' = 0 /\ sent' = 0 /\ counter' = <<>>
    BY <1>4 DEF StartArrayRead
  <2> QED
    BY <2>1 DEF Read, CounterIsTail
<1>5. CASE ReadByte
  <2>1. /\ step = "read" /\ step' = "read" /\ sent < CounterSize
        /\ counter' = Append(counter, array[address]) /\ sent' = sent + 1
        /\ address' = NextAddress(address) /\ array' = array
    BY <1>5 DEF ReadByte
  <2>2. PICK n \in Nat : n = sent
    BY <1>1, Sizes DEF ImageTypeOK
  <2>3. address = n /\ Len(counter) = n /\ n < PageSize - 1
    BY <2>1, <2>2, Sizes DEF Read
  <2>4. address' = n + 1
    BY <2>1, <2>3, Sizes DEF NextAddress
  <2>5. /\ Len(counter') = n + 1 /\ counter'[n + 1] = array[n]
        /\ \A k \in 1 .. n : counter'[k] = counter[k]
    BY <1>1, <2>1, <2>3 DEF ImageTypeOK
  <2>6. \A k \in 1 .. n + 1 : counter'[k] = array[k - 1]
    <3> TAKE k \in 1 .. n + 1
    <3>1. CASE k = n + 1
      <4>1. k - 1 = n
        BY <3>1
      <4> QED
        BY <2>5, <3>1, <4>1
    <3>2. CASE k # n + 1
      <4>1. k \in 1 .. n
        BY <3>2
      <4> QED
        BY <2>1, <2>2, <2>5, <4>1 DEF Read
    <3> QED
      BY <3>1, <3>2
  <2> QED
    BY <2>1, <2>2, <2>4, <2>5, <2>6 DEF Read, CounterIsTail
<1>6. CASE EndArrayRead
  <2>1. /\ step = "read" /\ step' = "idle" /\ sent = CounterSize
        /\ UNCHANGED <<counter, flushes>>
    BY <1>6 DEF EndArrayRead
  <2>2. \A k \in 1 .. CounterSize : counter[k] = array[k - 1] /\ k - 1 \in Places
    BY <2>1, Sizes DEF Read, Places
  <2>3. ImageSize >= PageSize =>
          \/ \A k \in 1 .. CounterSize : counter[k] = Blank
          \/ \E n \in 1 .. flushes : \A k \in 1 .. CounterSize :
               counter[k] = [flush |-> n, i |-> Survivor(k - 1)]
    BY <1>1, <2>2 DEF PageIsTail
  <2> QED
    BY <2>1, <2>3 DEF Read, CounterIsTail
<1>7. CASE UNCHANGED imageVars
  BY <1>7 DEF imageVars, Read, CounterIsTail
<1> QED
  BY <1>2, <1>3, <1>4, <1>5, <1>6, <1>7 DEF ImageNext

(* After w times around the buffer, the last CounterSize bytes of record r    *)
(* fall on the first addresses, and no byte after them does.                *)
Aligned(r, w) ==
  LET first == HeaderSize + (RecordSize * r + (RecordSize - CounterSize))
  IN  /\ CounterSize <= RecordSize /\ ImageSize >= PageSize
      /\ first >= ImageSize - PageSize
      /\ HeaderSize + first = PageSize * w

(* Then these bytes are what the page has there. *)
LEMMA AlignedSurvives ==
  ASSUME NEW r \in 0 .. BufferedRecords - 1, NEW w \in Nat, Aligned(r, w),
         NEW k \in 1 .. CounterSize
  PROVE  /\ RecordOf(Survivor(k - 1)) = r
         /\ OffsetOf(Survivor(k - 1)) = RecordSize - CounterSize + k - 1
<1>1. /\ RecordSize \in Nat \ {0} /\ BufferedRecords \in Nat \ {0} /\ r \in Nat
      /\ r + 1 <= BufferedRecords
  BY ImageAssumption
<1>2. PICK m \in Nat : m = RecordSize * r
  BY <1>1
<1>3. PICK all \in Nat : all = BufferedRecords * RecordSize /\ m + RecordSize <= all
  <2>1. /\ BufferedRecords * RecordSize \in Nat
        /\ RecordSize * (r + 1) = RecordSize * r + RecordSize
    BY <1>1
  <2>2. RecordSize * (r + 1) <= BufferedRecords * RecordSize
    BY <1>1
  <2> QED
    BY <1>2, <2>1, <2>2
<1>4. PICK first \in Nat : first = HeaderSize + (m + (RecordSize - CounterSize))
  BY <1>1, <1>2, Sizes DEF Aligned
<1>5. PICK turns \in Nat : turns = PageSize * w
  BY Sizes
<1>6. /\ CounterSize <= RecordSize /\ ImageSize >= PageSize
      /\ first >= ImageSize - PageSize /\ HeaderSize + first = turns
  BY <1>2, <1>4, <1>5 DEF Aligned
<1>7. ImageSize = HeaderSize + all
  BY <1>3 DEF ImageSize
<1> DEFINE i == first + (k - 1)
<1>8. /\ i \in ImageSize - PageSize .. ImageSize - 1 /\ i \in Nat
      /\ HeaderSize + i = turns + (k - 1)
      /\ k - 1 \in 0 .. PageSize - 1 /\ k - 1 \in Places
      /\ i - HeaderSize = m + (RecordSize - CounterSize + k - 1)
      /\ RecordSize - CounterSize + k - 1 \in 0 .. RecordSize - 1
  BY <1>1, <1>2, <1>3, <1>4, <1>5, <1>6, <1>7, Sizes DEF Places
<1>9. Place(i) = k - 1
  <2>1. (PageSize * w + (k - 1)) % PageSize = k - 1
    BY <1>8, Sizes, RemainderUnique
  <2> QED
    BY <1>5, <1>8, <2>1 DEF Place
<1>10. Survivor(k - 1) = i
  <2>1. PICK j \in ImageSize - PageSize .. ImageSize - 1 :
          j = Survivor(k - 1) /\ Place(j) = k - 1
    BY <1>6, <1>8, SurvivorFalls
  <2>2. j \in Nat /\ j - i < PageSize /\ i - j < PageSize
    BY <1>6, <1>8, <2>1, Sizes
  <2>3. CASE i < j
    BY <1>8, <1>9, <2>1, <2>2, <2>3, PlacesApart
  <2>4. CASE j < i
    BY <1>8, <1>9, <2>1, <2>2, <2>4, PlacesApart
  <2> QED
    BY <1>8, <2>1, <2>2, <2>3, <2>4
<1>11. /\ (RecordSize * r + (RecordSize - CounterSize + k - 1)) % RecordSize
             = RecordSize - CounterSize + k - 1
       /\ (RecordSize * r + (RecordSize - CounterSize + k - 1)) \div RecordSize = r
  BY <1>1, <1>8, RemainderUnique
<1> QED
  BY <1>2, <1>8, <1>10, <1>11 DEF RecordOf, OffsetOf

(* Wherever the sizes align a record with the start of the page so, the boot  *)
(* scan takes the end of that one record for the counter, after any number  *)
(* of flushes (gps_init and GPS_DATA_t).                                    *)
THEOREM WordIsOfOneRecord ==
  ASSUME NEW r \in 0 .. BufferedRecords - 1, NEW w \in Nat, Aligned(r, w)
  PROVE  ImageSpec => []WordIsLongitude
<1>1. ImageInit => Read /\ CounterIsTail
  BY Sizes DEF ImageInit, Read, CounterIsTail
<1>2. IInv /\ Read /\ CounterIsTail /\ [ImageNext]_imageVars => Read' /\ CounterIsTail'
  BY CounterKeeps
<1>3. CounterIsTail => WordIsLongitude
  <2>1. ImageSize >= PageSize
    BY DEF Aligned
  <2>2. \A k \in 1 .. CounterSize :
          /\ RecordOf(Survivor(k - 1)) = r
          /\ OffsetOf(Survivor(k - 1)) = RecordSize - CounterSize + k - 1
    BY AlignedSurvives
  <2> QED
    BY <2>1, <2>2 DEF CounterIsTail, WordIsLongitude
<1> QED
  BY <1>1, <1>2, <1>3, AlwaysInv, PTL DEF ImageSpec

(* The sizes of the code do: it is record 13, once around the buffer.         *)
THEOREM WordIsThatOfTheCode ==
  ASSUME PageSize = 264, HeaderSize = 8, CounterSize = 4, RecordSize = 18,
         BufferedRecords = 28
  PROVE  ImageSpec => []WordIsLongitude
<1>1. Aligned(13, 1)
  BY DEF Aligned, ImageSize
<1>2. 13 \in 0 .. BufferedRecords - 1 /\ 1 \in Nat
  OBVIOUS
<1> QED
  BY <1>1, <1>2, WordIsOfOneRecord

=============================================================================
