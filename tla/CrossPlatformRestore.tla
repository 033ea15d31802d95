------------------------- MODULE CrossPlatformRestore -------------------------
(***************************************************************************)
(* CrossPlatformRestore: threads convert one backup, a VHDX image, to      *)
(* disks.  A conversion that goes over raw keeps the raw image in a        *)
(* temporary file, beside the new disk or beside the backup.               *)
(*                                                                         *)
(* qemu-img and cp are external: each may fail at any time, empties what   *)
(* it writes, and goes on reading a file that was removed.  What follows a *)
(* conversion, drivers copied to a mount that is read-only and a file with *)
(* the configuration, does not touch the disks.                            *)
(***************************************************************************)
CONSTANTS Threads, Targets

VARIABLES
  image,      (* file |-> "absent", "part" or the "whole" of the backup     *)
  restores,   (* per thread the conversion it makes                         *)
  restored    (* history: disks told restored by a call that shared no file *)

reVars == <<image, restores, restored>>

Source == "source"

Contents == {"absent", "part", "whole"}
Images == (Targets \cup {Source}) \X {"disk", "raw"}

(* cp, or qemu-img alone, makes the disk; VMDK and QCOW2 are made from raw *)
(* beside the backup; any other format from raw beside the disk.           *)
Routes == {"direct", "beside source", "beside target"}

Idle == [at |-> "idle", leg |-> 1, to |-> Source, route |-> "direct",
         sees |-> "part", alone |-> TRUE]

UnderWay(c) == restores[c].at # "idle"

Init ==
  /\ image = [f \in Images |-> IF f = <<Source, "disk">> THEN "whole" ELSE "absent"]
  /\ restores = [c \in Threads |-> Idle]
  /\ restored = {}

-----------------------------------------------------------------------------
(* Mutation: every raw image is beside the backup.                         *)
TemporaryOne(r) == <<Source, "raw">>

(* The files of a conversion: where its raw image is, and what the command *)
(* it runs reads and writes.                                               *)
Temporary(r) == <<IF r.route = "beside source" THEN Source ELSE r.to, "raw">>

Reads(r) == IF r.leg = 2 THEN Temporary(r) ELSE <<Source, "disk">>

Writes(r) ==
  IF r.leg = 1 /\ r.route # "direct" THEN Temporary(r) ELSE <<r.to, "disk">>

(* Two calls have a file in common.                                        *)
Share(r, s) ==
  r.to = s.to \/ (r.route = "beside source" /\ s.route = "beside source")

-----------------------------------------------------------------------------
ConvertDisk(c) ==
  /\ ~UnderWay(c)
  /\ \E to \in Targets, route \in Routes :
       LET new == [Idle EXCEPT !.at = "ready", !.to = to, !.route = route]
           others == {d \in Threads \ {c} : UnderWay(d) /\ Share(new, restores[d])}
       IN  /\ restores' = [d \in Threads |->
                CASE d = c -> [new EXCEPT !.alone = (others = {})]
                  [] d \in others -> [restores[d] EXCEPT !.alone = FALSE]
                  [] OTHER -> restores[d]]
           /\ restored' = restored \ {to}
  /\ UNCHANGED image

(* A command begins: it empties what it writes, under the eyes of another  *)
(* command that reads or writes the same file.                             *)
ConvertFormat(c) ==
  LET r == restores[c]
      Meets(s) == s.at = "run" /\ (Reads(s) = Writes(r) \/ Writes(s) = Writes(r))
  IN  /\ r.at = "ready" /\ image[Reads(r)] # "absent"
      /\ image' = [image EXCEPT ![Writes(r)] = "part"]
      /\ restores' = [d \in Threads |->
           CASE d = c -> [r EXCEPT !.at = "run",
                            !.sees = IF \E e \in Threads : Meets(restores[e])
                                     THEN "part" ELSE image[Reads(r)]]
             [] d # c /\ Meets(restores[d]) -> [restores[d] EXCEPT !.sees = "part"]
             [] OTHER -> restores[d]]
      /\ UNCHANGED restored

(* It ends well, with a whole image unless it met another.  After the      *)
(* first of two commands comes the second; after the last the raw image is *)
(* removed and the caller told a success.                                  *)
Converted(c) ==
  LET r == restores[c]
      more == r.leg = 1 /\ r.route # "direct"
      removed == IF r.leg = 2 THEN {Temporary(r)} ELSE {}
  IN  /\ r.at = "run"
      /\ \E content \in IF r.sees = "whole" THEN {"whole"} ELSE {"part", "whole"} :
           image' = [f \in Images |->
             IF f \in removed THEN "absent"
             ELSE IF f = Writes(r) /\ image[f] # "absent" THEN content
             ELSE image[f]]
      /\ restores' = [restores EXCEPT ![c] =
           IF more THEN [r EXCEPT !.at = "ready", !.leg = 2, !.sees = "part"]
           ELSE Idle]
      /\ restored' = IF ~more /\ r.alone THEN restored \cup {r.to} ELSE restored

(* A command does not start or fails: what it wrote stays, and the raw     *)
(* image goes only if it was complete.                                     *)
Failed(c) ==
  LET r == restores[c]
  IN  /\ UnderWay(c)
      /\ image' = IF r.leg = 2 THEN [image EXCEPT ![Temporary(r)] = "absent"]
                  ELSE image
      /\ restores' = [restores EXCEPT ![c] = Idle]
      /\ UNCHANGED restored

Next ==
  \E c \in Threads :
    ConvertDisk(c) \/ ConvertFormat(c) \/ Converted(c) \/ Failed(c)

Spec == Init /\ [][Next]_reVars

-----------------------------------------------------------------------------
TypeOK ==
  /\ image \in [Images -> Contents]
  /\ restored \subseteq Targets
  /\ \A c \in Threads : restores[c].to \in Targets \cup {Source}

(* A disk that was told restored, by a call that met no other for the same *)
(* disk, nor both with a raw image beside the backup, is whole and stays   *)
(* so, whatever else is converted from that backup at the time.            *)
RestoredIsWhole == \A d \in restored : image[<<d, "disk">>] = "whole"
=============================================================================
