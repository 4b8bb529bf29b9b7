-------------------------------- MODULE Flash --------------------------------
(***************************************************************************)
(* The two calls of the API that write to flash memory themselves: the     *)
(* environment of the boot loader (libezcfg/api/src/api-ubootenv.c) and    *)
(* the firmware upgrade (api-firmware.c).  Flash is erased and written     *)
(* block by block; power may be lost, and a block may fail, between any    *)
(* two of these.                                                           *)
(*                                                                         *)
(* The environment is a checksum and a string of name=value entries, each  *)
(* ended by a NUL, the last one followed by another NUL.  A cell stands    *)
(* for a byte; the checksum stands for the text it was computed of.        *)
(***************************************************************************)
EXTENDS Naturals, Sequences, FiniteSets, FiniteSetsExt, SequencesExt

CONSTANTS
  EnvSize,     \* cells of the environment
  BlockSize,   \* cells that are erased together
  Names,       \* of variables
  Protected,   \* those of default_checklist
  Values,      \* a value is its length; the least one is the factory's
  Partitions,  \* names in /proc/mtd
  PartBlocks,  \* erase blocks of a partition
  Images       \* of firmware: the sequences of their parts

(* The names of cells that begin no entry, apart from those of variables.  *)
Other == {"nul", "erased", "fill"}
(* A part of an image: what it is called, and the erase blocks it fills.   *)
Parts == [name : Partitions \union {"firmware", "unknown"}, blocks : Nat]

ASSUME FlashAssumption ==
  /\ EnvSize \in Nat \ {0} /\ BlockSize \in Nat \ {0} /\ EnvSize % BlockSize = 0
  /\ Values # {} /\ Values \subseteq Nat \ {0}
  /\ Protected \subseteq Names /\ Names \intersect Other = {}
  /\ PartBlocks \in Nat \ {0}
  /\ Images \subseteq Seq(Parts)

VARIABLES
  env,     \* the environment in flash: its checksum and its cells
  wanted,  \* what the calls that succeeded have left of every variable
  setter,  \* the call of ezcfg_api_ubootenv_set()
  images,  \* the environments before and after the call
  torn,    \* a write of the environment was not finished
  mtd,     \* the blocks of the other partitions
  fw       \* the call of ezcfg_api_firmware_upgrade(), the last one if none is made

flashvars == <<env, wanted, setter, images, torn, mtd, fw>>
envvars == <<env, wanted, setter, images, torn>>
fwvars == <<mtd, fw>>

Cell(n, v) == [name |-> n, value |-> v]
Nul == Cell("nul", 0)
Erased == Cell("erased", 0)
Fill == Cell("fill", 0)
Unset == 0

EntryLen(v) == v + 1
Entry(n, v) == <<Cell(n, v)>> \o [k \in 1..v - 1 |-> Fill] \o <<Nul>>
Nuls(k) == [j \in 1..k |-> Nul]
Blank == Nuls(EnvSize)

-----------------------------------------------------------------------------

(* The cells of the data are 1..EnvSize here, data[0..] there.             *)

(* The first cell after two NULs in a row: the place for the next entry.   *)
(* An empty environment has it one cell too far.                           *)
EndCells(d) == {e \in 2..EnvSize : d[e] = Nul /\ d[e - 1] = Nul}

(* The cells where find_entry_position() finds an entry to begin.          *)
EntryCells(d) ==
  {p \in 1..EnvSize :
     /\ d[p] # Nul /\ (p = 1 \/ d[p - 1] = Nul)
     /\ \A q \in 1..p - 1 : d[q] = Nul => q > 1 /\ d[q - 1] # Nul}
find_entry_position(d, n) == {p \in EntryCells(d) : d[p].name = n}

ValueOf(d, n) ==
  IF find_entry_position(d, n) = {} THEN Unset
  ELSE d[Min(find_entry_position(d, n))].value

(* Mutant: the checksum is not compared.                                   *)
UncheckedEnv(e) == EndCells(e.data) # {}
(* read_ubootenv() and the checks every call makes before it looks.        *)
Readable(e) == e.crc = e.data /\ EndCells(e.data) # {}

(* memmove() over the entry at p, up to and with the cell end.             *)
TakeOut(d, p, end) ==
  LET l == EntryLen(d[p].value)
  IN  [k \in 1..EnvSize |-> IF k \in p..end - l THEN d[k + l] ELSE d[k]]

Room(d, n, v, end) == EnvSize + 1 - end >= EntryLen(v)

(* The old entry is taken out, the new one put at the end, and the rest    *)
(* cleared.                                                                *)
Edit(d, n, v) ==
  LET at  == find_entry_position(d, n)
      end == Min(EndCells(d))
      e   == IF at = {} THEN end ELSE end - EntryLen(ValueOf(d, n))
      c   == IF at = {} THEN d ELSE TakeOut(d, Min(at), end)
      new == IF v = Unset THEN <<>> ELSE Entry(n, v)
  IN  [room |-> v = Unset \/ Room(d, n, v, e),
       data |-> [k \in 1..EnvSize |->
                   IF k < e THEN c[k]
                   ELSE IF k < e + Len(new) THEN new[k - e + 1] ELSE Nul]]

(* check_ubootenv_name(): a protected variable may only be changed while   *)
(* it has its factory value.                                               *)
Factory == Min(Values)
check_ubootenv_name(d, n) ==
  n \in Protected => ValueOf(d, n) \in {Unset, Factory}

-----------------------------------------------------------------------------

Blocks == 1..EnvSize \div BlockSize
CellsOf(b) == (b - 1) * BlockSize + 1 .. b * BlockSize
NoCall == [name |-> "", value |-> Unset, buf |-> Blank, block |-> 0, step |-> "idle"]
NoUpgrade == [parts |-> <<>>, k |-> 1, raw |-> FALSE, path |-> "", block |-> 0,
              step |-> "idle", ok |-> FALSE]
(* What a block of a partition holds: a block of a part of the image, or   *)
(* nothing of it.                                                          *)
Content(k, b) == [kind |-> "part", part |-> k, block |-> b]
Without(x) == [kind |-> x, part |-> 0, block |-> 0]
Old == Without("old")
OldParts == [p \in Partitions |-> [b \in 1..PartBlocks |-> Old]]
Blanked == Without("erased")
Garbage == Without("garbage")

(* A box as it leaves the factory: every protected variable is set.        *)
FactoryEnv ==
  LET text == FoldSet(LAMBDA n, t : t \o Entry(n, Min(Values)), <<>>, Protected)
  IN  text \o Nuls(EnvSize - Len(text))

(* What a text holds when it is in order, said without the code that looks *)
(* into it.  Cells 1..e - 1 are whole entries one after the other:         *)
Cells == [name : Names \union Other, value : Nat]
Text == [1..EnvSize -> Cells]
Laid(d, e) ==
  /\ e \in 1..EnvSize + 1 /\ (e > 1 => d[e - 1] = Nul)
  /\ \A k \in 1..e - 1 :
       /\ (k = 1 \/ d[k - 1] = Nul) <=> d[k].name \in Names
       /\ d[k].name \in Names =>
            /\ d[k].value \in Values /\ k + d[k].value < e
            /\ d[k + d[k].value] = Nul
            /\ \A j \in k + 1..k + d[k].value - 1 : d[j] = Fill
(* each for another variable, and these have the values w.                 *)
Stored(d, e, w) ==
  /\ \A k \in 1..e - 1 : d[k].name \in Names => d[k].value = w[d[k].name]
  /\ \A n \in Names : w[n] # Unset => \E k \in 1..e - 1 : d[k].name = n
  /\ \A j, k \in 1..e - 1 : d[j].name \in Names /\ d[j].name = d[k].name => j = k
(* The text is such entries and a NUL behind them, or has lost them all.   *)
Whole(d, w) ==
  \/ d[1] = Nul
  \/ \E e \in 2..EnvSize + 1 : Laid(d, e) /\ Stored(d, e, w) /\ (e <= EnvSize => d[e] = Nul)

FactoryValues == [n \in Names |-> IF n \in Protected THEN Factory ELSE Unset]
ASSUME FactoryAssumption ==
  FactoryEnv \in Text /\ EndCells(FactoryEnv) # {} /\ Whole(FactoryEnv, FactoryValues)

FlashInit ==
  /\ env = [crc |-> FactoryEnv, data |-> FactoryEnv] /\ images = {FactoryEnv}
  /\ wanted = FactoryValues
  /\ setter = NoCall /\ torn = FALSE
  /\ mtd = OldParts
  /\ fw = NoUpgrade

(* The partition is read into a buffer and edited there; the call ends     *)
(* here when the environment cannot be read, the variable is protected or  *)
(* there is no room.                                                       *)
Allowed(n, v) ==
  /\ Readable(env) /\ check_ubootenv_name(env.data, n)
  /\ Edit(env.data, n, v).room
ezcfg_api_ubootenv_set(n, v) ==
  /\ setter.step = "idle"
  /\ IF Allowed(n, v)
     THEN LET new == Edit(env.data, n, v).data IN
          /\ setter' = [name |-> n, value |-> v, buf |-> new, block |-> 1,
                        step |-> "erase"]
          /\ images' = {env.data, new}
     ELSE UNCHANGED <<setter, images>>
  /\ UNCHANGED <<env, wanted, torn, fwvars>>

LastBlock == setter.block = Cardinality(Blocks)

(* write_ubootenv(): every block is erased and written; the checksum is at *)
(* the head of the first.                                                  *)
EraseEnvBlock ==
  /\ setter.step = "erase"
  /\ env' = [crc  |-> IF setter.block = 1 THEN <<>> ELSE env.crc,
             data |-> [k \in 1..EnvSize |->
                         IF k \in CellsOf(setter.block) THEN Erased ELSE env.data[k]]]
  /\ setter' = [setter EXCEPT !.step = "write"]
  /\ UNCHANGED <<wanted, images, torn, fwvars>>

WriteEnvBlock ==
  LET s == setter
      last == LastBlock
  IN
  /\ s.step = "write"
  /\ env' = [crc  |-> IF s.block = 1 THEN s.buf ELSE env.crc,
             data |-> [k \in 1..EnvSize |->
                         IF k \in CellsOf(s.block) THEN s.buf[k] ELSE env.data[k]]]
  /\ setter' = IF last THEN NoCall ELSE [s EXCEPT !.block = @ + 1, !.step = "erase"]
  /\ wanted' = IF last THEN [wanted EXCEPT ![s.name] = s.value] ELSE wanted
  /\ images' = IF last THEN {s.buf} ELSE images
  /\ UNCHANGED <<torn, fwvars>>

(* An ioctl() or a write() fails, and the call returns; or power is lost.  *)
StopWriting ==
  /\ setter.step # "idle"
  /\ setter' = NoCall /\ torn' = TRUE
  /\ UNCHANGED <<env, wanted, images, fwvars>>

-----------------------------------------------------------------------------

(* An image is read into memory, its checksum and its model compared with  *)
(* the running one, before any block is touched; a call that finds a       *)
(* difference ends there.  An image without parts is a success.  Without a *)
(* model the file, which is not empty, is copied to the partition called   *)
(* firmware as it is.  What the partitions hold when a call begins is old. *)
Copyable(parts) == Len(parts) = 1 /\ parts[1].name = "firmware" /\ parts[1].blocks > 0
ezcfg_api_firmware_upgrade(parts, raw) ==
  /\ fw.step = "idle" /\ (raw => Copyable(parts))
  /\ fw' = [NoUpgrade EXCEPT !.parts = parts, !.raw = raw, !.ok = parts = <<>>,
                              !.step = IF parts = <<>> THEN "done" ELSE "find"]
  /\ mtd' = OldParts
  /\ UNCHANGED envvars

Part == fw.parts[fw.k]
NextPart(ok) ==
  IF fw.k = Len(fw.parts)
  THEN [fw EXCEPT !.step = "done", !.ok = ok]
  ELSE [fw EXCEPT !.step = "find", !.ok = ok, !.k = @ + 1]

(* Mutant: the device of the first part is used for all.                   *)
FirstPathKept ==
  /\ fw.step = "find" /\ Part.name \in Partitions
  /\ fw' = [fw EXCEPT !.path = IF @ = "" THEN Part.name ELSE @,
                      !.block = 1, !.step = "erase"]
  /\ UNCHANGED <<mtd, envvars>>
(* get_part_device_path() leaves path as it is when /proc/mtd does not     *)
(* name the partition, and reports success: the part goes where the one    *)
(* before it went.  A path that was never set does not open.               *)
get_part_device_path ==
  /\ fw.step = "find"
  /\ \/ fw' = NextPart(FALSE)
     \/ /\ Part.name \in Partitions
        /\ fw' = [fw EXCEPT !.path = Part.name, !.block = 1, !.step = "erase"]
     \/ /\ Part.name \notin Partitions /\ fw.path # ""
        /\ fw' = [fw EXCEPT !.block = 1, !.step = "erase"]
  /\ UNCHANGED <<mtd, envvars>>

(* write_part() erases the whole partition and writes as much of the part  *)
(* as there is, and as there is room for; what is left over is no failure. *)
(* write_firmware() stops after the last block of the file, and writes     *)
(* every block but the first from behind its buffer; the call goes on to   *)
(* compare the running model with none, and does not succeed.              *)
ErasePartBlock ==
  /\ fw.step = "erase"
  /\ mtd' = [mtd EXCEPT ![fw.path][fw.block] = Blanked]
  /\ fw' = [fw EXCEPT !.step = "write"]
  /\ UNCHANGED envvars
WritePartBlock ==
  LET b == fw.block IN
  /\ fw.step = "write"
  /\ mtd' = [mtd EXCEPT ![fw.path][b] =
               IF b > Part.blocks THEN @
               ELSE IF fw.raw /\ b > 1 THEN Garbage ELSE Content(fw.k, b)]
  /\ fw' = IF b = PartBlocks \/ (fw.raw /\ b = Part.blocks) THEN NextPart(~fw.raw)
           ELSE [fw EXCEPT !.block = @ + 1, !.step = "erase"]
  /\ UNCHANGED envvars

(* A block fails: the part is given up, and the next one taken.            *)
PartFails ==
  /\ fw.step \in {"erase", "write"} /\ fw' = NextPart(FALSE)
  /\ UNCHANGED <<mtd, envvars>>
(* The call returns, or power is lost.                                     *)
UpgradeEnds ==
  /\ fw.step # "idle"
  /\ fw' = [NoUpgrade EXCEPT !.parts = fw.parts, !.raw = fw.raw]
  /\ UNCHANGED <<mtd, envvars>>

FlashStep ==
  \/ EraseEnvBlock \/ WriteEnvBlock \/ StopWriting
  \/ get_part_device_path \/ ErasePartBlock \/ WritePartBlock \/ PartFails
  \/ UpgradeEnds

(* The two calls share no state: each is made while the other was not.     *)
FlashNext ==
  \/ /\ fw = NoUpgrade /\ mtd = OldParts
     /\ \E n \in Names, v \in Values \union {Unset} : ezcfg_api_ubootenv_set(n, v)
  \/ /\ images = {FactoryEnv} /\ setter = NoCall /\ ~torn
     /\ \E parts \in Images, raw \in BOOLEAN : ezcfg_api_firmware_upgrade(parts, raw)
  \/ FlashStep

FlashSpec == FlashInit /\ [][FlashNext]_flashvars

-----------------------------------------------------------------------------

(* Type invariant of the environment and of the partitions.                *)
FlashTypeOK ==
  /\ Len(env.data) = EnvSize /\ setter.block \in Blocks \union {0}
  /\ DOMAIN wanted = Names /\ torn \in BOOLEAN
  /\ fw.k \in 1..Len(fw.parts) + 1 /\ fw.block \in 0..PartBlocks

(* An entry that fills the environment to its last cell, which             *)
(* ezcfg_api_ubootenv_set() lets through, leaves no room for the NUL that  *)
(* ends the environment.                                                   *)
FilledUp == env.crc = env.data /\ EndCells(env.data) = {} /\ Last(env.data) = Nul

(* As long as no write was cut short, the environment can be read: its     *)
(* checksum fits and its end is found, whatever was set and unset.         *)
EnvReadable == (setter = NoCall /\ ~torn) => Readable(env) \/ FilledUp

(* It holds what the calls that succeeded have set, and nothing else: no   *)
(* call damages the entry of another variable.  The exception is an        *)
(* environment whose last entry was unset: the next entry goes behind a    *)
(* NUL and is not found.                                                   *)
EnvFaithful ==
  (setter = NoCall /\ ~torn /\ Readable(env)) =>
    \/ env.data[1] = Nul
    \/ \A n \in Names : ValueOf(env.data, n) = wanted[n]

(* Who reads while blocks are written, or after power was lost, gets an    *)
(* error or one of the two environments, never a mixture.                  *)
NoMixture == Readable(env) => env.data \in images

(* Where part k of the image may be: in the partition it is named for, or, *)
(* when there is none, in that of a part before it.                        *)
Goes(k, p) ==
  \/ fw.parts[k].name = p
  \/ fw.parts[k].name \notin Partitions /\ \E j \in 1..k - 1 : fw.parts[j].name = p

(* An upgrade writes every block of a part to the same block of a          *)
(* partition where the part may be, and touches no other partition.        *)
PartInPlace ==
  \A p \in Partitions, b \in 1..PartBlocks :
    \/ mtd[p][b] = Old
    \/ mtd[p][b] = Blanked /\ \E k \in DOMAIN fw.parts : fw.parts[k].name = p
    \/ mtd[p][b] = Garbage /\ fw.raw /\ p = "firmware" /\ b > 1
    \/ \E k \in DOMAIN fw.parts :
         mtd[p][b] = Content(k, b) /\ b <= fw.parts[k].blocks /\ Goes(k, p)

(* An upgrade that reports success has left its last part, as far as it    *)
(* fits, and nothing else where this part may be.  (Failures of the parts  *)
(* before it are not reported.)                                            *)
LastPartWritten ==
  LET k == Len(fw.parts) IN
  (fw.step = "done" /\ fw.ok /\ k > 0) =>
    /\ fw.path \in Partitions /\ Goes(k, fw.path)
    /\ \A b \in 1..PartBlocks :
         mtd[fw.path][b] = IF b <= fw.parts[k].blocks THEN Content(k, b) ELSE Blanked

(* The environment of the boot loader, through any number of changes:      *)
(* readable, equal to what was set, and never a mixture of two, at         *)
(* whatever block a write was cut short.                                   *)
EnvSound == FlashTypeOK /\ EnvReadable /\ EnvFaithful /\ NoMixture

(* An upgrade writes every part where it may be and touches nothing else,  *)
(* and one that reports success has written as much of its last part as    *)
(* there is room for, whichever blocks failed.                             *)
FirmwareInPlace == PartInPlace /\ LastPartWritten
=============================================================================
