------------------------------- MODULE Sealing -------------------------------
(***************************************************************************)
(* Texts of any length under a block cipher: the encrypting and decrypting *)
(* functions of aes.c that take a buffer, and those of shub_encrypt.c.  A  *)
(* text is padded to whole blocks by chars that say how many they are.     *)
(* Cipher and InvCipher are aes_cipher and aes_invcipher of a block under  *)
(* a key (Aes), MD5 the digest (Digest).  A result has its code ret and    *)
(* the buffer out, cut to the length returned.  NULL pointers, which every *)
(* function refuses first, are left out.                                   *)
(***************************************************************************)
EXTENDS LittleEndian

CONSTANTS
    BlockSize,        \* ENCRYPT_BLOCK_SIZE, 16 in the code
    Cipher(_, _),     \* Cipher(block, key)
    InvCipher(_, _),
    MD5(_)

(* A pad is told from a char that is below 0, and a block holds the three  *)
(* words of a packet that stay plain.                                      *)
ASSUME BlockSizeAssumption ==
    BlockSize \in Nat /\ 3 * Int32 < BlockSize /\ BlockSize < CharBase \div 2

Result(ret, out) == [ret |-> ret, out |-> out]
Whole(s) == Len(s) % BlockSize = 0

(* SubSeq only makes a tuple of the blocks: each is ciphered once.         *)
Blocks(s) == Len(s) \div BlockSize
BlockOf(s, b) == SubSeq(s, (b - 1) * BlockSize + 1, b * BlockSize)
Joined(blocks) ==
    [i \in 1..Len(blocks) * BlockSize |->
       blocks[(i - 1) \div BlockSize + 1][((i - 1) % BlockSize) + 1]]
Ciphered(s, key) ==
    Joined(SubSeq([b \in 1..Blocks(s) |-> Cipher(BlockOf(s, b), key)], 1, Blocks(s)))
Decrypted(s, key) ==
    Joined(SubSeq([b \in 1..Blocks(s) |-> InvCipher(BlockOf(s, b), key)], 1, Blocks(s)))

Padded(s) ==
    LET fill == BlockSize - (Len(s) % BlockSize) IN s \o [i \in 1..fill |-> fill]
Encrypted(s, key) == Ciphered(Padded(s), key)

(* The pad of a decrypted text.  Of an empty one it is the char stray that *)
(* happens to stand before the buffer.                                     *)
PadOf(plain, stray) == SignedChar(IF plain = <<>> THEN stray ELSE plain[Len(plain)])
Unpadded(plain, pad) == SubSeq(plain, 1, Len(plain) - pad)

-----------------------------------------------------------------------------
(* aes.c.                                                                  *)

AesEncryptWithKnownKey(buffer, key) == Result("SUCCESS", Encrypted(buffer, key))

(* The buffer holds the decrypted text when the pad is refused.            *)
AesDecryptWithKnownKey(buffer, key, stray) ==
    LET plain == Decrypted(buffer, key)
        pad   == PadOf(plain, stray)
    IN IF ~Whole(buffer) THEN Result("-2", buffer)
       ELSE IF pad \notin 1..BlockSize THEN Result("-3", plain)
       ELSE IF plain = <<>> THEN Result("-4", plain)
       ELSE Result("SUCCESS", Unpadded(plain, pad))

(* The local key is NULL and stays so: aes_key is not what is digested.    *)
LocalKey == MD5(<<>>)

SdAesEncrypt(aesKey, src, room) ==
    IF aesKey = <<>> \/ src = <<>> \/ room < Len(src) + BlockSize
    THEN Result("INVALID_ARGUMENT", <<>>)
    ELSE Result("SUCCESS", Encrypted(src, LocalKey))

SdAesDecrypt(aesKey, src, room) ==
    LET plain == Decrypted(src, LocalKey)
        pad   == PadOf(plain, 0)
    IN IF aesKey = <<>> \/ src = <<>> \/ room < Len(src) THEN Result("INVALID_ARGUMENT", <<>>)
       ELSE IF ~Whole(src) \/ pad \notin 1..BlockSize THEN Result("-1", <<>>)
       ELSE Result("SUCCESS", Unpadded(plain, pad))

EmAesEncrypt(in, room, key) ==
    IF room < Len(Padded(in)) THEN Result("BUFFER_OVERFLOW", <<>>)
    ELSE Result("SUCCESS", Encrypted(in, key))

(* A pad of 0 or below is taken: outLen may pass the chars decrypted.      *)
EmAesDecrypt(in, room, key, stray) ==
    LET plain == Decrypted(in, key)
        pad   == PadOf(plain, stray)
        fail(ret) == [ret |-> ret, out |-> plain, outLen |-> room]
    IN IF ~Whole(in) THEN fail("INVALID_ARGUMENT")
       ELSE IF room < Len(in) THEN fail("BUFFER_OVERFLOW")
       ELSE IF pad > BlockSize THEN fail("INVALID_ARGUMENT")
       ELSE [ret |-> "SUCCESS", out |-> plain, outLen |-> Len(in) - pad]

(* The key made of a pointer is that of its low 32 bits.                   *)
GenAesKeyByPtr(ptr) == MD5(Chars(ptr, Int32))

-----------------------------------------------------------------------------
(* shub_encrypt.c.  The first three words of a packet stay plain: the key  *)
(* is the digest of two, and the third becomes the length of the rest.     *)
(* XlAesEncrypt is never given less than them.                             *)

GenAesKeyByUserData(userData) == MD5(Chars(userData, Int32))

Words(n) == n * Int32
Opening(s) == SubSeq(s, 1, Words(3))
PacketKey(s) == MD5(SubSeq(s, 1, Words(2)))
Rest(s) == SubSeq(s, Words(3) + 1, Len(s))

XlAesEncrypt(buffer) ==
    LET sealed == Encrypted(Rest(buffer), PacketKey(buffer))
    IN Result("SUCCESS", SubSeq(buffer, 1, Words(2)) \o Chars(Len(sealed), Int32) \o sealed)

(* FALSE, which is SUCCESS, is returned for a packet that is not whole, or *)
(* shorter than the three words: its length less these wraps.              *)
XlAesDecrypt(buffer, stray) ==
    LET plain == Decrypted(Rest(buffer), PacketKey(buffer))
        pad   == PadOf(plain, stray)
        read  == Opening(buffer) \o plain
    IN IF Len(buffer) < Words(3) \/ ~Whole(Rest(buffer)) THEN Result("SUCCESS", buffer)
       ELSE IF pad \notin 1..BlockSize \/ plain = <<>> THEN Result("-1", read)
       ELSE Result("SUCCESS", Unpadded(read, pad))

(* aes_encrypt and aes_decrypt do not pad; simple_aes_encrypt and          *)
(* simple_aes_decrypt are the same under a key of their own.               *)
AesEncrypt(buf, key) ==
    IF ~Whole(buf) THEN Result("-1", buf)
    ELSE Result("SUCCESS", Ciphered(buf, key))
AesDecrypt(buf, key) ==
    IF ~Whole(buf) THEN Result("-1", buf) ELSE Result("SUCCESS", Decrypted(buf, key))
SimpleAesEncrypt(buf, simpleKey) == AesEncrypt(buf, simpleKey)
SimpleAesDecrypt(buf, simpleKey) == AesDecrypt(buf, simpleKey)
=============================================================================
