---------------------------- MODULE MCUsbTerminal ----------------------------
(***************************************************************************)
(* Words and keys of two characters for UsbTerminal, and a cipher on blocks *)
(* of two bits that adds the key, one more for every block: what a block is  *)
(* combined with matters, and which block it is.                           *)
(***************************************************************************)
EXTENDS UsbTerminal

(* Neither command is part of the other with itself, as in the code. *)
TestKeyWord == <<1, 2>>
TestSaveWord == <<2, 1>>

Sum(k) == k[1] + 2 * k[2]
TestEncrypt(k, i, x) == (x + Sum(k) + i - 1) % 4
TestLastSubkey(k) == <<(Sum(k) + 1) % 4, 0>>
TestDecrypt(s, i, x) == (x + 4 + i - s[1]) % 4
TestXor(x, y) == (((x \div 2) + (y \div 2)) % 2) * 2 + ((x + y) % 2)
TestPart(x) == x % 2
TestPlain == {<<3, 2>>}
TestBlocks == 0 .. 3
=============================================================================
