-------------------------------- MODULE MCParts --------------------------------
(***************************************************************************)
(* The parts that have no run of their own, in one: a behaviour chooses a  *)
(* part and stays in it.  The sniffer with the index, the tasks, the peers *)
(* of an infohash, lists, queries, files and digests have steps; a part    *)
(* that is a pure function has one step, which chooses its arguments.      *)
(***************************************************************************)
EXTENDS LinkedList, FileStore, Indexer, PeersManager, QueryClient,
        NumberChecks, CodecChecks, DhtChecks, TLC

VARIABLES
    part,       \* what this behaviour is about
    input,      \* the arguments chosen, or None; a message while it is fed
    inserted, ready, begins, downloads    \* Magnet

-----------------------------------------------------------------------------
(* Four rows, two to a page.                                               *)
N == INSTANCE Magnet WITH MaxRows <- 4, Limit <- 2, LastOffset <- 2, MaxChains <- 2

(* Words of one char and blocks of four, with a cipher, a digest and a     *)
(* public key that only need their inverses.                               *)

ToyMD5(s) == SubSeq([i \in 1..4 |-> FoldLeft(LAMBDA n, ch : (n * (i + 2) + ch) % 256, i, s)], 1, 4)
ToyCipher(b, k) == SubSeq([i \in 1..4 |-> (b[(i % 4) + 1] + k[i]) % 256], 1, 4)
ToyInvCipher(b, k) ==
    SubSeq([i \in 1..4 |-> (b[((i + 2) % 4) + 1] - k[((i + 2) % 4) + 1]) % 256], 1, 4)
ToyPublic(t) == <<9>> \o Reverse(t) \o <<7>>
ToyPrivate(t) == Reverse(SubSeq(t, 2, 5))

Query(infohash, channel, appid) ==
    [infohash |-> infohash, peerid |-> <<70, 71>>, version |-> 5, seq |-> 6, appid |-> appid,
     channel |-> channel, cmdId |-> 8, compress |-> 1]
Response(file) == [base |-> [i \in 1..9 |-> 20 + i], file |-> file]

(* One has a digit that is none, one a channel too long for its buffer.    *)
SomeQueries == {Query(<<1, 15, 0, 7>>, <<>>, 0), Query(<<1, 2, 3, 4>>, <<65, 66, 67>>, 12),
                Query(<<1, 2, -1, 4>>, <<65>>, 3),
                Query(<<1, 2, 3, 4>>, <<65, 66, 67, 68, 69, 70, 71>>, 3)}
SomeResponses == {Response(<<>>), Response(<<1, 2, 3>>)}
OneChar == <<49>>

(* The file: four blocks, the last with a pad of two, for a buffer of one  *)
(* block and a char.                                                       *)
SealedFile == Encrypted([i \in 1..14 |-> 10 + i], LocalKey)

MaxPieces == 3

-----------------------------------------------------------------------------

Parts == {"index", "tasks", "peers", "list", "query", "file", "message", "arithmetic", "text",
          "power", "inverse", "prime", "encryption", "signature", "known", "sealing", "buffer",
          "bencode", "tree", "bitmap", "nearest", "goText", "goValue", "address"}

PartsInit ==
    /\ Init /\ IndexInit /\ N!Init /\ PeersInit /\ QueryInit /\ FileInit
    /\ part \in Parts
    /\ part = "tasks" \/ inserted = 1     \* for else a part would begin in every state of Magnet
    /\ part = "index" \/ nameless = {}    \* and in every one of Indexer
    /\ input = IF part = "message" THEN Streaming ELSE None

taskVars == <<inserted, ready, begins, downloads>>
crawlVars == <<indexVars, taskVars, peersVars>>
all == <<part, input, vars, crawlVars, clientVars, fileVars>>

Stays(p) == part = p /\ UNCHANGED <<part, input>>
InIndex == Stays("index") /\ UNCHANGED <<taskVars, peersVars, vars, clientVars, fileVars>>
InTasks == Stays("tasks") /\ UNCHANGED <<indexVars, peersVars, vars, clientVars, fileVars>>
Index == IndexNext /\ InIndex
Tasks == N!Next /\ InTasks
Announces == Stays("peers") /\ PeersNext /\ UNCHANGED <<indexVars, taskVars, vars, clientVars, fileVars>>
List == Stays("list") /\ Next /\ UNCHANGED <<crawlVars, clientVars, fileVars>>
Client == Stays("query") /\ QueryNext /\ UNCHANGED <<vars, crawlVars, fileVars>>
File == Stays("file") /\ FileNext /\ UNCHANGED <<vars, crawlVars, clientVars>>
Feed ==
    /\ part = "message"
    /\ input.pieces < MaxPieces
    /\ \E n \in Pieces : input' = Fed(input, n)
    /\ UNCHANGED <<part, vars, crawlVars, clientVars, fileVars>>

Choose(p, arguments) ==
    /\ part = p
    /\ input = None
    /\ input' \in arguments
    /\ UNCHANGED <<part, vars, crawlVars, clientVars, fileVars>>

PartsNext ==
    \/ Index \/ Tasks \/ Announces
    \/ List \/ Client \/ File \/ Feed
    \/ Choose("arithmetic", Dividends)
    \/ Choose("text", Numbers16 \X {1, -1} \X Radices)
    \/ Choose("power", Bases \X Exponents \X Moduli)
    \/ Choose("inverse", Bases \X Moduli)
    \/ Choose("prime", 1..270)
    \/ Choose("encryption", {<<a, b>> : a \in {0, 1, 15}, b \in {0, 15}})
    \/ Choose("signature", {<<1, 0, 15, 7>>, <<0, 0, 0, 0>>} \X {"MD2", "MD5", "SHA1", "RAW"})
    \/ Choose("known", Known)
    \/ Choose("sealing", Texts)
    \/ Choose("buffer", Writes)
    \/ Choose("bencode", BencodeChars)
    \/ Choose("tree", Trees)
    \/ Choose("bitmap", Arrays)
    \/ Choose("nearest", Queues \X Ids \X (0..3))
    \/ Choose("goText", GoChars)
    \/ Choose("goValue", GoValues)
    \/ Choose("address", SomeIps \X (-1..17))

(* The fairness of Indexer and of Magnet.                                  *)
Fairness ==
    /\ IndexFairness
    /\ WF_taskVars(part = "tasks" /\ N!Begin)

PartsSpec == PartsInit /\ [][PartsNext]_all /\ Fairness

-----------------------------------------------------------------------------

(* What is said of a pure function is said of the step that chooses its    *)
(* arguments.                                                              *)
Chosen(p) == part = p /\ input' # None

(* bignum.c computes on limbs what the numbers are, with carries, borrows  *)
(* and corrections at every boundary and whichever argument takes the      *)
(* result, a sum in the one case that SumsAreSums refutes aside; texts and *)
(* binaries read back as what was written, in the room asked for, a char   *)
(* more for a hexadecimal text with a sign aside; powers, inverses and the *)
(* test of primes are those of arithmetic.                                 *)
NumbersExact ==
    [][/\ Chosen("arithmetic") => \A y \in Operands : ArithmeticExact(input', y)
       /\ Chosen("text") => NumberReadsBack(input'[1], input'[2], input'[3])
       /\ Chosen("power") => PowersExact(input'[1], input'[2], input'[3])
       /\ Chosen("inverse") => InversesExact(input'[1], input'[2])
       /\ Chosen("prime") => PrimesTold(input')]_input

(* bignum.c:668: mpi_add_abs is |A| + |B|.  A carry that meets a full limb *)
(* below the end of the number is lost.                                    *)
SumsAreSums ==
    [][Chosen("arithmetic") =>
         \A y \in Operands : V(N4!AddAbs(input', input', y)) = V(input') + Abs(V(y))]_input

(* md5.c and sha1.c: however a message is cut into pieces, the digest is   *)
(* that of the whole with its padding and its length, the carry of the     *)
(* count included; and a block is digested, and enciphered by aes.c, as    *)
(* the standards say.                                                      *)
DigestsStream ==
    [][/\ part = "message" => StreamsAsWhole(input')
       /\ Chosen("known") => input'.got = input'.is]_input

(* rsa.c, aes.c and shub_encrypt.c: what is encrypted under the public     *)
(* half of a generated key is decrypted by the private half, which works   *)
(* modulo each prime on its own, and a signature is verified for its hash  *)
(* under the name it was made for and no other.  A text of any length, on  *)
(* and beside the boundaries of the blocks, comes back whole from what it  *)
(* is sealed to.                                                           *)
SecretsOpen ==
    [][/\ Chosen("encryption") => MessageOpens(ShortKey, input')
       /\ Chosen("signature") => SignatureHolds(LongKey, input'[1], input'[2], <<2, 2, 3, 4>>)
       /\ Chosen("sealing") => SealedOpens(input'[1], input'[2])]_input

(* bytebuffer.c and package_helper.c: what was written without an error is *)
(* read back in the order it was written, in either order of bytes; no     *)
(* write passes the end, and a failure of the package helper stays, that   *)
(* of a string aside, so that testing it once at the end is enough.        *)
BufferReadsBack ==
    [][Chosen("buffer") =>
         \A room \in Rooms : BufferReads(input', room) /\ PackageReads(input', room)]_input

(* bencode.go, util.go and bencode.c: decoding any text ends with values   *)
(* from within it, unless a length given to the C decoder is below 0; what *)
(* is decoded or made and encoded is decoded to the same again, in         *)
(* whatever order a map is gone through; and so are addresses and nodes.   *)
MessagesReadBack ==
    [][/\ Chosen("bencode") => \A text \in TextsOf(input') : DecodesWithin(text)
       /\ Chosen("tree") => TreeReadsBack(input')
       /\ Chosen("goText") => \A text \in GoTextsOf(input') : TextDecodes(text)
       /\ Chosen("goValue") => ValueReadsBack(input')
       /\ Chosen("address") => AddressReadsBack(input'[1], input'[2])]_input

(* bitmap.go and getTopK: bits compare, add and extend as the numbers they *)
(* are the digits of, at whatever place in a byte they begin and end, and  *)
(* the nodes that find_node and get_peers answer are the nearest.          *)
NeighborsNearest ==
    [][/\ Chosen("bitmap") => BitmapsExact(input'[1], input'[2])
       /\ Chosen("nearest") => NearestChosen(input'[1], input'[2], input'[3])]_input

(* tasks.py: every row comes to be downloaded while its status is 0,       *)
(* though pages are counted over a set that shrinks: see Magnet.           *)
EveryRowTried == part = "tasks" => N!EveryRowTried
=============================================================================
