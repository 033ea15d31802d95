-------------------------------- MODULE Engines --------------------------------
(***************************************************************************)
(* The engines that change the bytes of a backup and have to change them   *)
(* back: obs::CryptoEngine, and the crypto and compression engines of the  *)
(* EngineFactory.  Both crypto engines seal with AES-256-GCM in one layout *)
(* and wrap keys with RSA, CryptoEngine with the default padding and the   *)
(* other with OAEP.                                                        *)
(*                                                                         *)
(* OpenSSL and zlib are external.  What they return for a value that was   *)
(* altered, or opened with another key, is an error, and the bytes they    *)
(* leave are garbage: whether the engines look is the engines' affair.     *)
(* EVP_DecryptFinal_ex() of GCM stores a length of zero.  A text wrapped   *)
(* with one padding gives no key with another; into a buffer whose length  *)
(* is given as zero EVP_PKEY_decrypt() gives nothing, and                  *)
(* EVP_PKEY_encrypt() nothing or, in some versions, the text.              *)
(*                                                                         *)
(* Bytes are the layers they are under.  A call that throws changes        *)
(* nothing.                                                                *)
(***************************************************************************)
EXTENDS Integers, Sequences, SequencesExt

CONSTANTS
  Keys,       (* 256-bit keys                                               *)
  MaxLayers   (* bound: layers                                              *)

VARIABLES
  original,   (* the bytes of the caller: "data", or "empty"                *)
  content,    (* what is under the layers, "garbage" when it is neither     *)
  layers,     (* from the innermost to the outermost                        *)
  hand,       (* the key the caller has, "junk" if it is none               *)
  wrapped,    (* the text of the last wrap_key()                            *)
  emptied     (* history: the factory's engine opened a layer               *)

engineVars == <<original, content, layers, hand, wrapped, emptied>>

CryptoEngines == {"core", "factory"}
NotWrapped == [key |-> "junk", padding |-> "none"]

(* tight: more than four times as long without this layer.                 *)
Zlib(tight) == [op |-> "zlib", key |-> "junk", tight |-> tight, intact |-> TRUE]
Sealed(k) == [op |-> "sealed", key |-> k, tight |-> FALSE, intact |-> TRUE]

Init ==
  /\ original \in {"data", "empty"} /\ content = original
  /\ layers = <<>>
  /\ hand = "junk" /\ wrapped = NotWrapped
  /\ emptied = FALSE

-----------------------------------------------------------------------------
(* Mutation: what OpenSSL, or zlib, returned is not looked at.             *)
ReturnedUnseen(fits) == TRUE

-----------------------------------------------------------------------------
(* What decrypt() and decompress() go by: they throw when the tag did not  *)
(* fit, and when uncompress() returned an error.                           *)
Authenticated(fits) == fits
Inflated(fits) == fits

(* decrypt() ends with the length of the plaintext: CryptoEngine adds what *)
(* the last step stores to it, the other has it stored over.               *)
PlainLength(e) == IF e = "core" THEN 1 ELSE 0

(* The outermost layer is off, if what was asked of it fits; what is left  *)
(* of bytes that do not fit means nothing.                                 *)
Uncover(fits) ==
  IF fits THEN layers' = Front(layers) /\ content' = content
          ELSE layers' = <<>> /\ content' = "garbage"

(* compress(): what is random to zlib does not shrink.                     *)
Compress(tight) ==
  /\ Len(layers) < MaxLayers
  /\ tight => layers = <<>> /\ content = "data"
  /\ layers' = Append(layers, Zlib(tight))
  /\ UNCHANGED <<original, content, hand, wrapped, emptied>>

(* decompress(), into four times the space, of whatever it is given.       *)
Decompress ==
  /\ layers # <<>>
  /\ LET fits == Last(layers) = Zlib(FALSE)
     IN  Inflated(fits) /\ Uncover(fits)
  /\ UNCHANGED <<original, hand, wrapped, emptied>>

(* generate_key().                                                         *)
GenerateKey(k) ==
  /\ hand' = k
  /\ UNCHANGED <<original, content, layers, wrapped, emptied>>

(* encrypt(), of either engine; it throws when the key is none.            *)
Encrypt ==
  /\ hand \in Keys /\ Len(layers) < MaxLayers
  /\ layers' = Append(layers, Sealed(hand))
  /\ UNCHANGED <<original, content, hand, wrapped, emptied>>

(* decrypt(), of whatever it is given, with whatever key is in hand.       *)
Decrypt(e) ==
  /\ hand \in Keys /\ layers # <<>>
  /\ LET fits == Last(layers) = Sealed(hand)
     IN  /\ Authenticated(fits)
         /\ IF PlainLength(e) = 0
            THEN layers' = <<>> /\ content' = "empty"
            ELSE Uncover(fits)
  /\ emptied' = (emptied \/ e = "factory")
  /\ UNCHANGED <<original, hand, wrapped>>

(* CryptoEngine asks for the length first and gives it, and leaves the     *)
(* padding at what it is; the other gives zero, and sets OAEP.  Neither    *)
(* looks at what comes back.                                               *)
GivesLength(e) == e = "core"
Padding(e) == IF e = "core" THEN "pkcs1" ELSE "oaep"

(* wrap_key() of the key in hand, for one pair of RSA keys.                *)
WrapKey(e) ==
  /\ \E padding \in {Padding(e)} \cup (IF GivesLength(e) THEN {} ELSE {"none"}) :
       wrapped' = [key |-> hand, padding |-> padding]
  /\ UNCHANGED <<original, content, layers, hand, emptied>>

(* unwrap_key() of that text.                                              *)
UnwrapKey(e) ==
  /\ hand' = IF GivesLength(e) /\ wrapped.padding = Padding(e)
             THEN wrapped.key ELSE "junk"
  /\ UNCHANGED <<original, content, layers, wrapped, emptied>>

(* The bytes are altered where they are kept.                              *)
Alter ==
  /\ layers # <<>>
  /\ layers' = [layers EXCEPT ![Len(layers)].intact = FALSE]
  /\ UNCHANGED <<original, content, hand, wrapped, emptied>>

Next ==
  \/ \E tight \in BOOLEAN : Compress(tight)
  \/ Decompress
  \/ \E k \in Keys : GenerateKey(k)
  \/ Encrypt
  \/ \E e \in CryptoEngines : Decrypt(e) \/ WrapKey(e) \/ UnwrapKey(e)
  \/ Alter

Spec == Init /\ [][Next]_engineVars

-----------------------------------------------------------------------------
TypeOK ==
  /\ {original, content} \subseteq {"data", "empty", "garbage"}
  /\ Len(layers) <= MaxLayers /\ hand \in Keys \cup {"junk"}

(* Bytes that were opened are those that were given, in whatever order     *)
(* they were sealed, compressed, wrongly keyed and altered and whoever     *)
(* did it: a call that cannot give them gives none.  All that can become   *)
(* of them is that the factory's decrypt() empties them.                   *)
OpenedIsOriginal ==
  layers = <<>> =>
    \/ content = original
    \/ emptied /\ content = "empty"

(* What the test of the factory's engine asserts (test_oop.cpp:195): what  *)
(* was encrypted decrypts to what it was.                                  *)
DecryptedIsData == layers = <<>> => content = original
=============================================================================
