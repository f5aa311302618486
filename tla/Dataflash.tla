------------------------------- MODULE Dataflash -------------------------------
(***************************************************************************)
(* The Dataflash driver (gps_logger/dataflash.c) and the chip behind it.   *)
(*                                                                         *)
(* A driver function that has to wait polls the chip first (pc "wait") and *)
(* then sends its command (pc "command"); some leave a transaction open    *)
(* ("filling", "reading") in which the caller sends or receives bytes.     *)
(* Meanwhile the chip copies a buffer into a page, or erases, on its own.  *)
(* While it does it ignores every command but a buffer write.              *)
(***************************************************************************)
EXTENDS Integers, Sequences

CONSTANTS
  NumPages,    \* DF_NUM_PAGES
  PageSize,    \* DF_PAGE_SIZE
  Values,      \* the bytes the callers send
  ErasedByte,  \* 0xFF
  MaxCalls,    \* bound on the calls of the driver
  MaxLosses    \* bound on the losses of power

ASSUME FlashAssumption ==
  /\ NumPages \in Nat \ {0}
  /\ PageSize \in Nat \ {0}
  /\ MaxCalls \in Nat
  /\ MaxLosses \in Nat

VARIABLES
  array,     \* the pages
  bufs,      \* the two SRAM buffers of the chip, DF_BUF1 and DF_BUF2
  op,        \* the operation the chip is busy with, or NoOp
  address,   \* the address counter of the open transaction
  call,      \* the driver function last called, with its arguments
  pc,        \* where that call is
  got,       \* the bytes received in the open array read
  calls, losses

chip   == <<array, bufs, op>>
driver == <<address, call, pc, got>>
vars   == <<chip, driver, calls, losses>>

Pages     == 0 .. NumPages - 1
Offsets   == 0 .. PageSize - 1
Buffers   == {"DF_BUF1", "DF_BUF2"}
Byte      == Values \cup {ErasedByte}
Contents  == [Offsets -> Byte]
BlankPage == [o \in Offsets |-> ErasedByte]

(* An operation: the pages it is for, the buffer it copies ("none" for an   *)
(* erase), the bytes copied so far, and, as history, what the buffer held   *)
(* when the command was given.                                             *)
Op(P, b) == [pages |-> P, buf |-> b, image |-> <<>>,
             want |-> IF b = "none" THEN BlankPage ELSE bufs[b]]
NoOp     == [pages |-> {}, buf |-> "none", image |-> <<>>, want |-> BlankPage]

(* The calls: the page and the buffer are those of the function's          *)
(* arguments, zero and "none" if it has none; byte is where an array read   *)
(* or a buffer write starts.                                               *)
Call(f, b, p, o) == [fn |-> f, buf |-> b, page |-> p, byte |-> o]

Calls ==
       {Call(f, b, 0, o) : f \in {"DF_start_buffer_write",
                                  "DF_start_buffer_write_no_busy_check"},
                           b \in Buffers, o \in Offsets}
  \cup {Call("DF_write_buffer", b, p, 0) : b \in Buffers, p \in Pages}
  \cup {Call("DF_start_array_read", "none", p, o) : p \in Pages, o \in Offsets}
  \cup {Call("DF_erase_page", "none", p, 0) : p \in Pages}
  \cup {Call("DF_erase_entire_memory", "none", 0, 0)}

NoCall == Call("none", "none", 0, 0)

Init ==
  /\ array = [p \in Pages |-> BlankPage]
  /\ bufs = [b \in Buffers |-> BlankPage]
  /\ op = NoOp
  /\ address = 0
  /\ call = NoCall
  /\ pc = "idle"
  /\ got = <<>>
  /\ calls = 0
  /\ losses = 0

-----------------------------------------------------------------------------
(* The driver *)

(* Mutant: the bit is taken for "busy". *)
ReadyInverted == op # NoOp

(* df_ready: bit 7 of the status register. *)
Ready == op = NoOp

(* Mutant: an array read starts at once. *)
WaitsNotToRead(f) == f \notin {"DF_start_buffer_write_no_busy_check",
                               "DF_start_array_read", "DF_erase_entire_memory"}

(* Mutant: neither buffer write checks the chip. *)
WaitsNotToFill(f) == f \notin {"DF_start_buffer_write_no_busy_check",
                               "DF_start_buffer_write", "DF_erase_entire_memory"}

(* The functions that call DF_wait_for_ready before they send anything. *)
Waits(f) == f \notin {"DF_start_buffer_write_no_busy_check",
                      "DF_erase_entire_memory"}

(* A driver function is called.  DF_write_buffer may follow a buffer write  *)
(* directly, since it deselects the chip itself; otherwise transactions are *)
(* ended first.  The variant without busy check is for "double buffered     *)
(* writes": its caller fills the buffer that is not being programmed.       *)
CallDriver ==
  /\ calls < MaxCalls
  /\ calls' = calls + 1
  /\ \E f \in Calls :
       /\ pc = "idle" \/ (pc = "filling" /\ f.fn = "DF_write_buffer")
       /\ f.fn = "DF_start_buffer_write_no_busy_check" => f.buf # op.buf
       /\ call' = f
       /\ pc' = IF Waits(f.fn) THEN "wait" ELSE "command"
  /\ UNCHANGED <<chip, address, got, losses>>

(* DF_wait_for_ready finds the chip ready. *)
WaitForReady ==
  /\ pc = "wait" /\ Ready
  /\ pc' = "command"
  /\ UNCHANGED <<chip, address, call, got, calls, losses>>

(* The chip gets a command to program or erase; if it is busy it ignores it. *)
Accept(o) == op' = IF op = NoOp THEN o ELSE op

(* DF_start_buffer_write and its variant: command, buffer, first byte. *)
StartBufferWrite ==
  /\ pc = "command"
  /\ call.fn \in {"DF_start_buffer_write",
                  "DF_start_buffer_write_no_busy_check"}
  /\ address' = call.byte
  /\ pc' = "filling"
  /\ UNCHANGED <<chip, call, got, calls, losses>>

(* DF_write_buffer with erase: command, buffer, page. *)
WriteBuffer ==
  /\ pc = "command" /\ call.fn = "DF_write_buffer"
  /\ Accept(Op({call.page}, call.buf))
  /\ pc' = "idle"
  /\ UNCHANGED <<array, bufs, address, call, got, calls, losses>>

(* DF_erase_page: command, page. *)
ErasePage ==
  /\ pc = "command" /\ call.fn = "DF_erase_page"
  /\ Accept(Op({call.page}, "none"))
  /\ pc' = "idle"
  /\ UNCHANGED <<array, bufs, address, call, got, calls, losses>>

(* DF_erase_entire_memory: its four command bytes ... *)
EraseEntireMemory ==
  /\ pc = "command" /\ call.fn = "DF_erase_entire_memory"
  /\ Accept(Op(Pages, "none"))
  /\ pc' = "erasing"
  /\ UNCHANGED <<array, bufs, address, call, got, calls, losses>>

(* ... and the end of its own waiting loop. *)
EndErase ==
  /\ pc = "erasing" /\ Ready
  /\ pc' = "idle"
  /\ UNCHANGED <<chip, address, call, got, calls, losses>>

(* DF_start_array_read: command, page, first byte. *)
StartArrayRead ==
  /\ pc = "command" /\ call.fn = "DF_start_array_read"
  /\ address' = call.page * PageSize + call.byte
  /\ got' = <<>>
  /\ pc' = "reading"
  /\ UNCHANGED <<chip, call, calls, losses>>

(* Mutant: the buffers are larger than a page. *)
SendByteNoWrap ==
  /\ pc = "filling"
  /\ \E v \in Values : bufs' = [bufs EXCEPT ![call.buf][address] = v]
  /\ address' = address + 1
  /\ UNCHANGED <<array, op, call, pc, got, calls, losses>>

(* A byte that DF_spi_buffer sends; the counter stays within the buffer. *)
SendByte ==
  /\ pc = "filling"
  /\ \E v \in Values : bufs' = [bufs EXCEPT ![call.buf][address] = v]
  /\ address' = (address + 1) % PageSize
  /\ UNCHANGED <<array, op, call, pc, got, calls, losses>>

(* The byte at an address of the whole memory. *)
ByteAt(a) == array[a \div PageSize][a % PageSize]

(* A byte received with HW_spi(0x00): the counter runs through the array.   *)
(* Callers read at most a page.                                            *)
ReadByte ==
  /\ pc = "reading" /\ Len(got) < PageSize
  /\ got' = Append(got, ByteAt(address))
  /\ address' = (address + 1) % (NumPages * PageSize)
  /\ UNCHANGED <<chip, call, pc, calls, losses>>

(* DF_end_buffer_write and DF_end_array_read deselect the chip. *)
EndTransaction ==
  /\ pc \in {"filling", "reading"}
  /\ pc' = "idle"
  /\ UNCHANGED <<chip, address, call, got, calls, losses>>

-----------------------------------------------------------------------------
(* The chip and the outside world *)

(* The chip programs one more byte of the buffer. *)
CopyByte ==
  /\ op.buf # "none" /\ Len(op.image) < PageSize
  /\ op' = [op EXCEPT !.image = Append(@, bufs[op.buf][Len(op.image)])]
  /\ UNCHANGED <<array, bufs, driver, calls, losses>>

(* It has finished the operation. *)
Complete ==
  /\ op # NoOp
  /\ op.buf # "none" => Len(op.image) = PageSize
  /\ array' = [p \in Pages |->
                 IF p \notin op.pages THEN array[p]
                 ELSE IF op.buf = "none" THEN BlankPage
                 ELSE [o \in Offsets |-> op.image[o + 1]]]
  /\ op' = NoOp
  /\ UNCHANGED <<bufs, driver, calls, losses>>

(* The processor starts again and selects nothing. *)
Restart ==
  /\ address' = 0
  /\ call' = NoCall
  /\ pc' = "idle"
  /\ got' = <<>>
  /\ UNCHANGED calls

(* A reset leaves the chip alone. *)
WatchdogReset == Restart /\ UNCHANGED <<chip, losses>>

(* Power is lost, with the buffers and the operation under way. *)
PowerLoss ==
  /\ losses < MaxLosses
  /\ losses' = losses + 1
  /\ Restart
  /\ bufs' = [b \in Buffers |-> BlankPage]
  /\ op' = NoOp
  /\ \E d \in [op.pages -> Contents] :
       array' = [p \in Pages |-> IF p \in op.pages THEN d[p] ELSE array[p]]

Driver == \/ CallDriver \/ WaitForReady
          \/ StartBufferWrite \/ SendByte \/ WriteBuffer
          \/ ErasePage \/ EraseEntireMemory \/ EndErase
          \/ StartArrayRead \/ ReadByte \/ EndTransaction

Next == Driver \/ CopyByte \/ Complete \/ WatchdogReset \/ PowerLoss

(* The chip goes on with its operation; the driver polls and sends its      *)
(* commands.  What is called, and when a transaction is ended, is up to the *)
(* callers.                                                                *)
Fairness ==
  /\ WF_vars(CopyByte \/ Complete)
  /\ WF_vars(\/ WaitForReady \/ StartBufferWrite \/ WriteBuffer \/ ErasePage
             \/ EraseEntireMemory \/ EndErase \/ StartArrayRead)

Spec == Init /\ [][Next]_vars /\ Fairness

-----------------------------------------------------------------------------
(* Type invariant. *)
TypeOK ==
  /\ array \in [Pages -> Contents]
  /\ bufs \in [Buffers -> Contents]
  /\ op \in [pages : SUBSET Pages, buf : Buffers \cup {"none"},
             image : Seq(Byte), want : Contents]
  /\ Len(op.image) <= PageSize
  /\ address \in 0 .. NumPages * PageSize - 1
  /\ call \in Calls \cup {NoCall}
  /\ pc \in {"idle", "wait", "command", "filling", "reading", "erasing"}
  /\ pc = "filling" => address \in Offsets /\ call.buf \in Buffers
  /\ got \in Seq(Byte)
  /\ calls \in Nat
  /\ losses \in Nat

(* The driver and the chip together are the store the log is written for:   *)
(* every page program stores what its buffer held when it was commanded, no *)
(* operation disturbs another, and each one ends.  The operation under way  *)
(* is known by its wanted contents, not by those copied so far.             *)
Store == INSTANCE PageStore WITH
           Data    <- Contents,
           Blank   <- BlankPage,
           pending <- [pages |-> op.pages, data |-> op.want]

ImplementsStore == Store!Spec

(* An array read returns the contents of the array from its first address   *)
(* on, across the ends of pages, and none of it is changing meanwhile.      *)
ReadsArray ==
  pc = "reading" =>
    \A k \in 1 .. Len(got) :
      got[k] = ByteAt((call.page * PageSize + call.byte + k - 1)
                        % (NumPages * PageSize))

(* Whatever the chip is busy with, every call gets its command to it and    *)
(* none waits for ever.                                                    *)
CallReturns ==
  pc \in {"wait", "command", "erasing"} ~> pc \in {"idle", "filling", "reading"}

=============================================================================
