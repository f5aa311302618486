------------------------------- MODULE PageImage -------------------------------
(***************************************************************************)
(* How the image of a page gets into the Dataflash byte by byte when       *)
(* gps_add_to_flash_buffer flushes its buffer, and which of these bytes    *)
(* the boot scan of gps_init then takes for the page's counter.  The image  *)
(* is longer than the page: what is sent first does not get there.         *)
(*                                                                         *)
(* A byte is abstracted to the flush that sent it and its place among the  *)
(* bytes that flush sends: the header first, then the records.             *)
(***************************************************************************)
EXTENDS Integers, Sequences

CONSTANTS
  PageSize,         \* DF_PAGE_SIZE: bytes of a page and of a buffer of the chip
  HeaderSize,       \* sizeof(GPS_PAGE_HEADER_t)
  CounterSize,      \* sizeof(header.counter), its first member
  RecordSize,       \* sizeof(GPS_DATA_t)
  BufferedRecords,  \* BUFFERED_RECORDS
  MaxFlushes        \* bound on the flushes

ImageSize == HeaderSize + BufferedRecords * RecordSize

ASSUME ImageAssumption ==
  /\ PageSize \in Nat \ {0}
  /\ HeaderSize \in 0 .. PageSize - 1
  /\ CounterSize \in 1 .. HeaderSize
  /\ RecordSize \in Nat \ {0}
  /\ BufferedRecords \in Nat \ {0}
  /\ MaxFlushes \in Nat

VARIABLES
  buf1,      \* buffer 1 of the chip
  address,   \* the chip's address counter
  array,     \* the page of the chip that is written and scanned
  sent,      \* bytes the driver has sent, or read
  counter,   \* the bytes of the scan's counter, the lowest first
  flushes,   \* flushes begun
  step

imageVars == <<buf1, address, array, sent, counter, flushes, step>>

Places == 0 .. PageSize - 1
Blank     == [flush |-> 0, i |-> 0]
ImageByte      == [flush : 0 .. MaxFlushes, i : 0 .. ImageSize - 1]

ImageInit ==
  /\ buf1 = [a \in Places |-> Blank]
  /\ address = 0
  /\ array = [a \in Places |-> Blank]
  /\ sent = 0
  /\ counter = <<>>
  /\ flushes = 0
  /\ step = "idle"

-----------------------------------------------------------------------------
(* The chip: within a buffer, the address that follows the last is the first. *)
NextAddress(a) == IF a = PageSize - 1 THEN 0 ELSE a + 1

(* DF_start_buffer_write(DF_BUF1, sizeof(GPS_PAGE_HEADER_t)): buffer 1, from *)
(* this byte on.                                                           *)
StartBufferWrite ==
  /\ step = "idle" /\ flushes < MaxFlushes
  /\ flushes' = flushes + 1
  /\ address' = HeaderSize
  /\ sent' = 0
  /\ step' = "send"
  /\ UNCHANGED <<buf1, array, counter>>

(* DF_spi_buffer of the header, then of the records: one byte. *)
SendImageByte ==
  /\ step = "send" /\ sent < ImageSize
  /\ buf1' = [buf1 EXCEPT ![address] = [flush |-> flushes, i |-> sent]]
  /\ address' = NextAddress(address)
  /\ sent' = sent + 1
  /\ UNCHANGED <<array, counter, flushes, step>>

(* Mutant: the page is programmed before the records are sent. *)
WriteBufferEarly ==
  /\ step = "send" /\ sent >= HeaderSize
  /\ array' = buf1
  /\ step' = "idle"
  /\ UNCHANGED <<buf1, address, sent, counter, flushes>>

(* DF_write_buffer(DF_BUF1, true, page): the whole buffer becomes the page. *)
WriteBuffer ==
  /\ step = "send" /\ sent = ImageSize
  /\ array' = buf1
  /\ step' = "idle"
  /\ UNCHANGED <<buf1, address, sent, counter, flushes>>

(* DF_start_array_read(page, 0) in gps_init. *)
StartArrayRead ==
  /\ step = "idle"
  /\ address' = 0
  /\ sent' = 0
  /\ counter' = <<>>
  /\ step' = "read"
  /\ UNCHANGED <<buf1, array, flushes>>

(* One of the four HW_spi(0x00) that make up the counter. *)
ReadByte ==
  /\ step = "read" /\ sent < CounterSize
  /\ counter' = Append(counter, array[address])
  /\ address' = NextAddress(address)
  /\ sent' = sent + 1
  /\ UNCHANGED <<buf1, array, flushes, step>>

(* DF_end_array_read() *)
EndArrayRead ==
  /\ step = "read" /\ sent = CounterSize
  /\ step' = "idle"
  /\ UNCHANGED <<buf1, address, array, sent, counter, flushes>>

ImageNext == \/ StartBufferWrite \/ SendImageByte \/ WriteBuffer
        \/ StartArrayRead \/ ReadByte \/ EndArrayRead

ImageSpec == ImageInit /\ [][ImageNext]_imageVars

-----------------------------------------------------------------------------
(* Type invariant. *)
ImageTypeOK ==
  /\ buf1 \in [Places -> ImageByte]
  /\ address \in Places
  /\ array \in [Places -> ImageByte]
  /\ sent \in 0 .. ImageSize
  /\ counter \in Seq(ImageByte)
  /\ flushes \in 0 .. MaxFlushes
  /\ step \in {"idle", "send", "read"}

(* Which byte of an image that is longer than the page ends up at address   *)
(* a: of those that fall on it, the last one sent.                         *)
Survivor(a) ==
  CHOOSE i \in ImageSize - PageSize .. ImageSize - 1 :
    (HeaderSize + i) % PageSize = a

(* A page never mixes two flushes: it holds the last PageSize bytes of one  *)
(* image, each where the address counter has carried it, although that has  *)
(* gone around the buffer about twice.                                     *)
PageIsTail ==
  ImageSize >= PageSize =>
    \/ \A a \in Places : array[a] = Blank
    \/ \E n \in 1 .. flushes : \A a \in Places :
         array[a] = [flush |-> n, i |-> Survivor(a)]

(* The record and the byte of it that an image's byte belongs to. *)
RecordOf(i) == (i - HeaderSize) \div RecordSize
OffsetOf(i) == (i - HeaderSize) % RecordSize

(* "header.counter = df_page_counter++", "write to flash": what the scan     *)
(* reads of a written page are the bytes of the counter that the flush put   *)
(* into its header.  They are not: the header, sent first, is overwritten     *)
(* when the address counter comes round.                                   *)
CounterIsRead ==
  step = "idle" /\ Len(counter) = CounterSize =>
    \/ \A k \in 1 .. CounterSize : counter[k] = Blank
    \/ \E n \in 1 .. flushes : \A k \in 1 .. CounterSize :
         counter[k] = [flush |-> n, i |-> k - 1]

(* What they are instead: the last four bytes, lon_left and lon_right, of one *)
(* and the same record.  The words of the pages in PageLog stand for these.   *)
WordIsLongitude ==
  step = "idle" /\ Len(counter) = CounterSize =>
    \/ \A k \in 1 .. CounterSize : counter[k] = Blank
    \/ \E n \in 1 .. flushes, r \in 0 .. BufferedRecords - 1 :
         \A k \in 1 .. CounterSize :
           /\ counter[k].flush = n
           /\ RecordOf(counter[k].i) = r
           /\ OffsetOf(counter[k].i) = RecordSize - CounterSize + k - 1

=============================================================================
