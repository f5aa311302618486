------------------------------ MODULE UsbTerminal ------------------------------
(***************************************************************************)
(* The commands of USB_terminal (usb.c), the keys they set (crypto.c, with  *)
(* the AES peripheral) and the key's place in the EEPROM (eeprom.c, with    *)
(* the NVM controller), and CRYPT_process_buffer, which uses both keys.     *)
(*                                                                         *)
(* The terminal reads a channel as CdcRx provides it (ByteChannel).  One    *)
(* thread runs all of it; what may come between two steps is the host, the  *)
(* NVM controller, and a reset: nothing here resets the watchdog.           *)
(*                                                                         *)
(* Its specification has names of its own, so that UsbProofs can extend it  *)
(* beside UsbControl.                                                       *)
(***************************************************************************)
EXTENDS Naturals, Sequences, SequencesExt

CONSTANTS
  Chars,          \* characters the host types
  Zero,           \* what udi_cdc_getc returns without a connection
  Erased,         \* contents of an erased cell of the EEPROM
  KeyWord, SaveWord,   \* the commands that take a key
  KeyLength,      \* AES_KEY_LENGTH
  Blocks, ZeroBlock,             \* what the AES works on
  Encrypt(_, _, _), Decrypt(_, _, _),   \* with a key, the i-th block since
                 \* the key was loaded: each leaves another one in the AES
  LastSubkey(_), Xor(_, _),
  BlockPart(_),        \* the bytes of a block that a short buffer has
  Plain,          \* buffers the program encrypts, as sequences of blocks
  QueueSize,      \* characters the channel holds before it puts the host off
  MaxTyped,       \* bound on the characters the host types
  MaxConnections, \* bound on the connections it makes
  MaxResets,      \* bound on resets and losses of power
  MaxBuffers      \* bound on the buffers that are encrypted

Bytes == Chars \cup {Zero, Erased}
Keys == [1 .. KeyLength -> Bytes]
Word == Len(KeyWord)

ASSUME TerminalAssumption ==
  /\ Zero \notin Chars
  /\ KeyWord \in Seq(Chars) \ {<<>>} /\ SaveWord \in [1 .. Word -> Chars]
  /\ KeyWord # SaveWord
  /\ KeyLength \in Nat \ {0}
  /\ ZeroBlock \in Blocks /\ Plain \subseteq Seq(Blocks)
  /\ \A x \in Blocks : BlockPart(x) \in Blocks /\ Xor(ZeroBlock, x) = x
  /\ \A x, y \in Blocks : Xor(x, y) \in Blocks
  /\ \A k \in Keys, x \in Blocks :
       /\ \A p \in Plain : \A i \in 1 .. Len(p) : Encrypt(k, i, x) \in Blocks
       /\ Decrypt(LastSubkey(k), 1, Encrypt(k, 1, x)) = x
  /\ {QueueSize, MaxTyped, MaxConnections, MaxResets, MaxBuffers} \subseteq Nat

VARIABLES
  open, queue,       \* the channel: connected, bytes not yet read
  pc, rx, key,       \* USB_terminal
  aes_on,            \* power to the AES (main switches it off)
  aes_intermediate_key,
  eeprom, page_buffer, nvm_busy,
  buffer, short,     \* a buffer, whether its last block is short
  original, used,    \* history: its plain text, the key that encrypted it
  tail,              \* history: the last bytes that udi_cdc_getc returned, a
                     \* word's and those of the key after it
  typed, connections, resets, buffers

channel == <<open, queue, typed, connections>>
crypt   == <<buffer, short, original, used, buffers>>
nvm     == <<eeprom, page_buffer, nvm_busy>>
terminalVars    == <<channel, pc, rx, key, aes_on, aes_intermediate_key, nvm,
             crypt, tail, resets>>

NoWord == [i \in 1 .. Word |-> Zero]
NoKey == [i \in 1 .. KeyLength |-> Zero]

TerminalInit ==
  /\ open = FALSE /\ queue = <<>> /\ typed = 0 /\ connections = 0
  /\ pc = "command" /\ rx = NoWord /\ key = <<>>
  /\ aes_on \in BOOLEAN
  /\ aes_intermediate_key = NoKey
  /\ eeprom = [i \in 1 .. KeyLength |-> Erased]
  /\ page_buffer = <<>> /\ nvm_busy = FALSE
  /\ buffer = <<>> /\ short = FALSE /\ original = <<>> /\ used = NoKey
  /\ buffers = 0
  /\ tail = <<>> /\ resets = 0

-----------------------------------------------------------------------------
(* The host *)

Type(c) ==
  /\ open /\ Len(queue) < QueueSize /\ typed < MaxTyped
  /\ queue' = Append(queue, c)
  /\ typed' = typed + 1
  /\ UNCHANGED <<open, connections, pc, rx, key, aes_on, aes_intermediate_key, nvm,
                 crypt, tail, resets>>

Disconnect ==
  /\ open
  /\ open' = FALSE
  /\ UNCHANGED <<queue, typed, connections, pc, rx, key, aes_on,
                 aes_intermediate_key, nvm, crypt, tail, resets>>

(* The next bytes may be some of an earlier connection (CdcRx). *)
Connect ==
  /\ ~open /\ connections < MaxConnections
  /\ connections' = connections + 1
  /\ open' = TRUE
  /\ queue' \in {<<>>} \cup {<<c>> : c \in Chars}
  /\ UNCHANGED <<typed, pc, rx, key, aes_on, aes_intermediate_key, nvm,
                 crypt, tail, resets>>

-----------------------------------------------------------------------------
(* USB_terminal *)

(* udi_cdc_getc returns byte. *)
Getc(byte) ==
  /\ \/ queue # <<>> /\ byte = Head(queue) /\ queue' = Tail(queue)
     \/ queue = <<>> /\ ~open /\ byte = Zero /\ UNCHANGED queue
  /\ tail' = IF pc = "command" /\ Len(tail) >= Word
               THEN Append(SubSeq(tail, Len(tail) - Word + 2, Len(tail)), byte)
               ELSE Append(tail, byte)
  /\ UNCHANGED <<open, typed, connections>>

Shifted(byte) == Append(Tail(rx), byte)

(* The command that word is, and where it goes on. *)
Target(word) ==
  CASE word = KeyWord -> "key"
    [] word = SaveWord -> "save"
    [] OTHER -> "command"

(* A character comes into the register; a command leaves none in it.  (info *)
(* and dump print something and come back here.)                           *)
ReadCommand ==
  /\ pc = "command"
  /\ \E byte \in Bytes :
       /\ Getc(byte)
       /\ pc' = Target(Shifted(byte))
       /\ rx' = IF Shifted(byte) \in {KeyWord, SaveWord}
                  THEN NoWord ELSE Shifted(byte)
  /\ key' = <<>>
  /\ UNCHANGED <<aes_on, aes_intermediate_key, nvm, crypt, resets>>

(* Mutant: one byte too many. *)
CompleteLate(k) == Len(k) > KeyLength

Complete(k) == Len(k) = KeyLength

(* The bytes of a key, for one command or the other. *)
ReadKey ==
  /\ pc \in {"key", "save"}
  /\ \E byte \in Bytes : Getc(byte) /\ key' = Append(key, byte)
  /\ pc' = IF ~Complete(key') THEN pc
            ELSE IF pc = "key" THEN "generate" ELSE "load"
  /\ UNCHANGED <<rx, aes_on, aes_intermediate_key, nvm, crypt, resets>>

(* Mutant: the case of "key=" runs on into that of "save". *)
GenerateFallsThrough ==
  /\ pc = "generate" /\ aes_on
  /\ aes_intermediate_key' = LastSubkey(key)
  /\ pc' = "load"
  /\ UNCHANGED <<channel, rx, key, aes_on, nvm, crypt, tail, resets>>

(* CRYPT_generate_intermediate_key.  With the AES switched off it waits for  *)
(* ever.                                                                   *)
GenerateIntermediateKey ==
  /\ pc = "generate" /\ aes_on
  /\ aes_intermediate_key' = LastSubkey(key)
  /\ pc' = "command"
  /\ UNCHANGED <<channel, rx, key, aes_on, nvm, crypt, tail, resets>>

NvmReady == ~nvm_busy   \* EEP_WaitForNVM returns

(* CRYPT_load_key: EEP_LoadPageBuffer ... *)
LoadPageBuffer ==
  /\ pc = "load" /\ NvmReady
  /\ page_buffer' = key
  /\ pc' = "write"
  /\ UNCHANGED <<channel, rx, key, aes_on, aes_intermediate_key, eeprom,
                 nvm_busy, crypt, tail, resets>>

(* ... and EEP_AtomicWritePage: the command, and the wait for its end. *)
AtomicWritePage ==
  /\ pc = "write" /\ NvmReady
  /\ nvm_busy' = TRUE
  /\ pc' = "wait"
  /\ UNCHANGED <<channel, rx, key, aes_on, aes_intermediate_key, eeprom,
                 page_buffer, crypt, tail, resets>>

WaitForNVM ==
  /\ pc = "wait" /\ NvmReady
  /\ pc' = "command"
  /\ UNCHANGED <<channel, rx, key, aes_on, aes_intermediate_key, nvm,
                 crypt, tail, resets>>

(* The controller erases and writes the cells that were loaded. *)
NvmDone ==
  /\ nvm_busy
  /\ eeprom' = page_buffer
  /\ nvm_busy' = FALSE
  /\ page_buffer' = <<>>
  /\ UNCHANGED <<channel, pc, rx, key, aes_on, aes_intermediate_key,
                 crypt, tail, resets>>

-----------------------------------------------------------------------------
(* CRYPT_process_buffer: each block is combined with what the AES still     *)
(* holds, the result of the block before; a short block changes some of it  *)
(* and gets some of the result.  Only for the first block is the key the one *)
(* that was loaded.                                                        *)

Process(blocks, cut, aes) ==
  LET n == Len(blocks)
      isShort(i) == cut /\ i = n
      state[i \in 0 .. n] ==
        IF i = 0 THEN ZeroBlock
        ELSE aes[i][Xor(state[i - 1],
                        IF isShort(i) THEN BlockPart(blocks[i]) ELSE blocks[i])]
  IN  [i \in 1 .. n |-> IF isShort(i) THEN BlockPart(state[i]) ELSE state[i]]

(* The AES: what it does with each block of the buffer. *)
Aes(decrypt, k) ==
  [i \in 1 .. Len(buffer) |-> [x \in Blocks |->
     IF decrypt THEN Decrypt(k, i, x) ELSE Encrypt(k, i, x)]]

(* The program encrypts a buffer: the key comes from the EEPROM, which is   *)
(* mapped meanwhile, and only then.                                        *)
StartEncrypt ==
  /\ pc = "command" /\ aes_on /\ buffers < MaxBuffers
  /\ buffers' = buffers + 1
  /\ pc' = "encrypt"
  /\ buffer' \in Plain
  /\ short' \in BOOLEAN
  /\ original' = buffer'
  /\ UNCHANGED <<channel, rx, key, aes_on, aes_intermediate_key, nvm, used,
                 tail, resets>>

EncryptBuffer ==
  /\ pc = "encrypt"
  /\ used' = eeprom
  /\ buffer' = Process(buffer, short, Aes(FALSE, eeprom))
  /\ pc' = "command"
  /\ UNCHANGED <<channel, rx, key, aes_on, aes_intermediate_key, nvm, short,
                 original, buffers, tail, resets>>

(* Mutant: decryption takes the stored key, as encryption does. *)
DecryptWithStoredKey ==
  Process(buffer, short, Aes(TRUE, eeprom))

(* What CRYPT_process_buffer makes of it when it decrypts. *)
Decrypted == Process(buffer, short, Aes(TRUE, aes_intermediate_key))

-----------------------------------------------------------------------------
(* A reset, by the watchdog or the supply: what was in RAM is gone, and of   *)
(* the cells being written each is old, erased or new.  A buffer may have    *)
(* been stored before.                                                     *)
Cells ==
  IF ~nvm_busy THEN {eeprom}
  ELSE {k \in [1 .. KeyLength -> Bytes] :
          \A i \in 1 .. KeyLength : k[i] \in {eeprom[i], Erased, page_buffer[i]}}

Reset ==
  /\ resets < MaxResets /\ resets' = resets + 1
  /\ open' = FALSE /\ queue' = <<>>
  /\ pc' = "command" /\ rx' = NoWord /\ key' = <<>>
  /\ aes_intermediate_key' = NoKey
  /\ eeprom' \in Cells
  /\ page_buffer' = <<>> /\ nvm_busy' = FALSE
  /\ buffer' = IF pc = "encrypt" THEN <<>> ELSE buffer
  /\ tail' = <<>>
  /\ UNCHANGED <<typed, connections, aes_on, short, original, used, buffers>>

Program == \/ ReadCommand \/ ReadKey \/ GenerateIntermediateKey
           \/ LoadPageBuffer \/ AtomicWritePage \/ WaitForNVM
           \/ StartEncrypt \/ EncryptBuffer

TerminalNext == \/ Disconnect \/ Connect \/ \E c \in Chars : Type(c)
        \/ Program \/ NvmDone \/ Reset

TerminalSpec == TerminalInit /\ [][TerminalNext]_terminalVars

-----------------------------------------------------------------------------
TerminalTypeOK ==
  /\ open \in BOOLEAN /\ queue \in Seq(Chars) /\ typed \in 0 .. MaxTyped
  /\ connections \in 0 .. MaxConnections
  /\ pc \in {"command", "key", "save", "generate", "load", "write", "wait",
             "encrypt"}
  /\ rx \in [1 .. Word -> Bytes]
  /\ key \in BoundedSeq(Bytes, KeyLength)
  /\ aes_on \in BOOLEAN
  /\ eeprom \in Keys
  /\ page_buffer \in {<<>>} \cup Keys
  /\ {nvm_busy, short} \subseteq BOOLEAN
  /\ buffer \in Seq(Blocks) /\ original \in Seq(Blocks) /\ used \in Keys
  /\ tail \in BoundedSeq(Bytes, Word + KeyLength)
  /\ resets \in 0 .. MaxResets /\ buffers \in 0 .. MaxBuffers

(* But for a reset during a write, the key in the EEPROM changes only to the *)
(* bytes that the terminal read right after the word "save", in their order: *)
(* no byte of a command before it or after it, nor of another key, gets in,  *)
(* and a connection that ends meanwhile leaves zeros in their places        *)
(* (usb.c, case "save").                                                   *)
SavedAsTyped ==
  [][eeprom' # eeprom /\ resets' = resets => tail = SaveWord \o eeprom']_terminalVars

(* What was encrypted with the stored key comes back when its intermediate   *)
(* key is the one generated last, whatever was saved or reset meanwhile:    *)
(* the first block does, if it is not short.  (The others do not: the AES    *)
(* combines them with the result before, which is plain text then, and has  *)
(* another key by then.)                                                   *)
FirstBlockBack ==
  /\ pc # "encrypt" /\ buffer # <<>>
  /\ aes_intermediate_key = LastSubkey(used)
  /\ ~(short /\ Len(buffer) = 1)
  => Head(Decrypted) = Head(original)

=============================================================================
