------------------------------ MODULE FileStore -------------------------------
(***************************************************************************)
(* sd_aes_decrypt_file of aes.c over the file functions of sd_fs.c: the    *)
(* file is decrypted into one beside it, which takes its place at the end. *)
(* The process may crash between any two steps, and the caller calls again *)
(* after that.  A file is the sequence of its chars; calls interrupted by  *)
(* EINTR are repeated inside the functions and leave no trace.             *)
(***************************************************************************)
EXTENDS Sealing, SequencesExt

CONSTANTS
    BufferLen,        \* chars of the buffer, 2048 in the code
    Sealed,           \* the file before the call
    Faults,           \* what the operating system may do to a call
    MaxCrashes,
    Absent

ASSUME FileAssumption ==
    /\ BufferLen \in Nat /\ BlockSize <= BufferLen
    /\ Sealed \in Seq(CharSet)

Names == {"file", "tmp"}

VARIABLES
    files,        \* by name
    step,         \* the next step of the call
    inOffset,     \* nInOffset
    outPos,       \* chars written to the temporary file
    buffer,       \* the size_out chars that wait in buffer
    ret,
    crashes

fileVars == <<files, step, inOffset, outPos, buffer, ret, crashes>>

Outcomes(fault) == {"full"} \cup (Faults \cap fault)
Exists(name) == files[name] # Absent

-----------------------------------------------------------------------------
(* sd_fs.c.                                                                *)

(* What a read of n chars at offset i may return: all of them, less of     *)
(* them and SUCCESS, or an error.                                          *)
SdRead(text, i, n, how) ==
    IF how = "read_error" THEN [ret |-> "errno", got |-> <<>>]
    ELSE [ret |-> "SUCCESS",
          got |-> SubSeq(text, i + 1, i + IF how = "short_read" THEN n - 1 ELSE n)]

(* A write at pos may take less than it is given; that is SUCCESS, too.    *)
Overlaid(text, pos, s) ==
    SubSeq(text, 1, pos) \o s \o SubSeq(text, pos + Len(s) + 1, Len(text))
SdWrite(text, pos, s, how) ==
    LET taken == IF how = "short_write" THEN SubSeq(s, 1, Len(s) - 1) ELSE s
    IN IF how = "write_error" THEN [ret |-> "errno", text |-> text, pos |-> pos]
       ELSE [ret |-> "SUCCESS", text |-> Overlaid(text, pos, taken), pos |-> pos + Len(taken)]

(* The buffer is written when the data does not fit any more.  A block     *)
(* always fits an empty buffer.                                            *)
SdWriteSaveToBuffer(data, how) ==
    LET w == SdWrite(files["tmp"], outPos, buffer, how)
    IN IF Len(buffer) + Len(data) <= BufferLen
       THEN [ret |-> "SUCCESS", text |-> files["tmp"], pos |-> outPos, buffer |-> buffer \o data]
       ELSE IF w.ret # "SUCCESS"
       THEN [ret |-> w.ret, text |-> w.text, pos |-> w.pos, buffer |-> buffer]
       ELSE [ret |-> "SUCCESS", text |-> w.text, pos |-> w.pos, buffer |-> data]

SdDeleteFile(name, how) ==
    IF how = "delete_error" THEN files ELSE [files EXCEPT ![name] = Absent]

(* The new name must not exist.                                            *)
SdRenameFile(name, new) ==
    IF Exists(new) THEN [ret |-> "-1", files |-> files]
    ELSE [ret |-> "SUCCESS", files |-> [files EXCEPT ![new] = files[name], ![name] = Absent]]

-----------------------------------------------------------------------------
(* sd_aes_decrypt_file.                                                    *)

FileInit ==
    /\ files = [n \in Names |-> IF n = "file" THEN Sealed ELSE Absent]
    /\ step = "open" /\ inOffset = 0 /\ outPos = 0 /\ buffer = <<>>
    /\ ret = "SUCCESS" /\ crashes = 0

(* The temporary file is created, or opened as it was left.                *)
Open ==
    /\ step = "open"
    /\ IF ~Exists("file") \/ files["file"] = <<>> \/ Len(files["file"]) % BlockSize # 0
       THEN step' = "done" /\ ret' = "-1" /\ UNCHANGED files
       ELSE /\ step' = "block"
            /\ files' = [files EXCEPT !["tmp"] = IF Exists("tmp") THEN @ ELSE <<>>]
            /\ UNCHANGED ret
    /\ UNCHANGED <<inOffset, outPos, buffer, crashes>>

(* A block: the last one gives up its pad.  A pad that is none is an error *)
(* of its own, but the buffer is still written after it.                   *)
Block ==
    /\ step = "block"
    /\ \E rd \in Outcomes({"read_error", "short_read"}),
         wr \in Outcomes({"write_error", "short_write"}) :
          LET isLast == Len(files["file"]) - inOffset <= BlockSize
              r      == SdRead(files["file"], inOffset, BlockSize, rd)
              plain  == InvCipher(r.got, LocalKey)
              pad    == SignedChar(plain[BlockSize])
              bad    == isLast /\ pad \notin 1..BlockSize
              data   == IF isLast THEN SubSeq(plain, 1, BlockSize - pad) ELSE plain
              w      == SdWriteSaveToBuffer(data, wr)
          IN IF r.ret # "SUCCESS" \/ Len(r.got) # BlockSize
             THEN /\ step' = "close" /\ ret' = r.ret
                  /\ UNCHANGED <<files, inOffset, outPos, buffer>>
             ELSE IF bad
             THEN /\ step' = "flush" /\ ret' = "-1"
                  /\ UNCHANGED <<files, inOffset, outPos, buffer>>
             ELSE /\ step' = IF w.ret # "SUCCESS" THEN "close" ELSE IF isLast THEN "flush" ELSE "block"
                  /\ ret' = w.ret
                  /\ files' = [files EXCEPT !["tmp"] = w.text]
                  /\ inOffset' = inOffset + BlockSize
                  /\ outPos' = w.pos
                  /\ buffer' = w.buffer
    /\ UNCHANGED crashes

(* Mutant of Flush: what waits in the buffer is not written.   *)
FlushForgotten ==
    /\ step = "flush" /\ step' = "close"
    /\ UNCHANGED <<files, outPos, ret, inOffset, buffer, crashes>>

(* What the write returns is what counts from here on.                     *)
Flush ==
    /\ step = "flush"
    /\ step' = "close"
    /\ \E how \in Outcomes({"write_error", "short_write"}) :
          LET w == SdWrite(files["tmp"], outPos, buffer, how)
          IN IF buffer = <<>> THEN UNCHANGED <<files, outPos, ret>>
             ELSE files' = [files EXCEPT !["tmp"] = w.text] /\ outPos' = w.pos /\ ret' = w.ret
    /\ UNCHANGED <<inOffset, buffer, crashes>>

(* The old file goes after a success, the temporary one otherwise.         *)
Close ==
    /\ step = "close"
    /\ \E how \in Outcomes({"delete_error"}) :
          IF ret = "SUCCESS"
          THEN step' = "rename" /\ files' = SdDeleteFile("file", how) /\ UNCHANGED ret
          ELSE step' = "done" /\ files' = SdDeleteFile("tmp", how) /\ ret' = "-1"
    /\ UNCHANGED <<inOffset, outPos, buffer, crashes>>

Rename ==
    /\ step = "rename"
    /\ step' = "done"
    /\ files' = SdRenameFile("tmp", "file").files
    /\ ret' = SdRenameFile("tmp", "file").ret
    /\ UNCHANGED <<inOffset, outPos, buffer, crashes>>

(* What is in memory is lost, and the caller calls again.                  *)
CallAgain ==
    /\ step # "done" /\ crashes < MaxCrashes
    /\ crashes' = crashes + 1
    /\ step' = "open" /\ inOffset' = 0 /\ outPos' = 0 /\ buffer' = <<>> /\ ret' = "SUCCESS"
    /\ UNCHANGED files

FileNext == Open \/ Block \/ Flush \/ Close \/ Rename \/ CallAgain
FileSpec == FileInit /\ [][FileNext]_fileVars

-----------------------------------------------------------------------------

(* The text of the file as it was before the call, from its blocks.        *)
BlockAt(o) == InvCipher(SubSeq(Sealed, o + 1, o + BlockSize), LocalKey)
Plain == [i \in 1..Len(Sealed) |->
            LET o == ((i - 1) \div BlockSize) * BlockSize IN BlockAt(o)[i - o]]
ValidPad == SignedChar(Plain[Len(Plain)]) \in 1..BlockSize
Text == SubSeq(Plain, 1, Len(Plain) - SignedChar(Plain[Len(Plain)]))

(* At every moment, crashes and the steps between the deletion and the new *)
(* name included, the text is on disk: sealed or decrypted under its name, *)
(* or decrypted beside it.                                                 *)
TextIsOnDisk ==
    \/ files["file"] = Sealed
    \/ ValidPad /\ files["file"] = Text
    \/ ValidPad /\ ~Exists("file") /\ files["tmp"] = Text
=============================================================================
