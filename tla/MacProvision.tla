---------------------------- MODULE MacProvision ----------------------------
(***************************************************************************)
(* The device addresses of the BLE controller                              *)
(* (b91_bt_blc_mac_init in ble/vendor/controller/b91_bt_init.c): read from *)
(* flash, generated and written back when the cells are still erased, with *)
(* the power failing at any moment, also in the middle of a byte.          *)
(*                                                                         *)
(* A byte is the set of its bits that are 1.  An erased byte is the full   *)
(* set, and programming a flash cell can only clear bits.                  *)
(***************************************************************************)
EXTENDS Integers, Sequences

CONSTANTS
  Bits,          \* the bits of a byte
  RandomBytes,   \* bytes generateRandomNum may return
  Company,       \* <<0x38, 0xC1, 0xA4>>, the company id 0xA4C138
  RandomStatic,  \* 0xC0, the top byte of a random static address
  Factory,       \* a byte written in the factory
  None           \* nothing announced yet

Bytes == SUBSET Bits
Erased == Bits

ASSUME MacAssumption ==
  /\ RandomBytes \subseteq Bytes /\ RandomBytes # {}
  /\ Company \in Seq(Bytes) /\ Len(Company) = 3
  /\ \E i \in 1 .. 3 : Company[i] # Erased
  /\ RandomStatic \in Bytes
  /\ Factory \in Bytes \ {Erased}

VARIABLES
  configured,    \* CONFIG_B91_BLE_CTRL_MAC_FLASH_ADDR is not 0
  flash,         \* the eight cells at that address
  macPc,         \* where b91_bt_blc_mac_init is; "off" without power
  macRead,       \* what was read at the start of this boot
  random,        \* value_rand of this boot
  public,        \* mac_public
  static,        \* mac_random_static
  next,          \* the cell to program next
  announced,     \* the addresses the controller last started with
  torn           \* the power failed while the public address was written

ramVars == <<macRead, random, public, static, next>>
macVars == <<configured, flash, macPc, ramVars, announced, torn>>

Cells == 0 .. 7
Address == 0 .. 5
Blank == [i \in Address |-> Erased]

FactoryImages ==
  {[i \in Cells |-> IF i < n THEN Factory ELSE Erased] : n \in {0, 6, 8}}

RamCleared ==
  /\ macRead' = [i \in Cells |-> Erased]
  /\ random' = [i \in 0 .. 4 |-> Erased]
  /\ public' = Blank /\ static' = Blank
  /\ next' = 0

MacInit ==
  /\ configured \in BOOLEAN
  /\ flash \in FactoryImages
  /\ macPc = "off"
  /\ macRead = [i \in Cells |-> Erased]
  /\ random = [i \in 0 .. 4 |-> Erased]
  /\ public = Blank /\ static = Blank
  /\ next = 0
  /\ announced = None
  /\ torn = FALSE

-----------------------------------------------------------------------------
(* Without an address in flash the function returns at once and leaves     *)
(* both arrays as the stack had them.                                      *)
SkipUnconfigured ==
  /\ macPc = "off"
  /\ ~configured
  /\ \E b \in RandomBytes : public' = [Blank EXCEPT ![0] = b]
  /\ \E b \in RandomBytes : static' = [Blank EXCEPT ![0] = b]
  /\ macPc' = "ready"
  /\ UNCHANGED <<configured, flash, macRead, random, next, announced, torn>>

HasPublicFault(cells) == cells[0] # Erased   \* looks at the first byte only

HasPublic(cells) == \E i \in Address : cells[i] # Erased
HasStatic(cells) == cells[6] # Erased \/ cells[7] # Erased

Generated(r) ==
  [i \in Address |-> IF i < 3 THEN r[i] ELSE Company[i - 2]]

(* flash_read_page, generateRandomNum and the choice of the public address. *)
ReadAndChoose ==
  /\ macPc = "off"
  /\ configured
  /\ macRead' = flash
  /\ random' \in [0 .. 4 -> RandomBytes]
  /\ IF HasPublic(flash)
     THEN public' = [i \in Address |-> flash[i]] /\ macPc' = "static"
     ELSE public' = Generated(random') /\ macPc' = "write_public"
  /\ next' = 0
  /\ UNCHANGED <<configured, flash, static, announced, torn>>

(* flash_write_page, a byte at a time.                                     *)
Program(cell, byte) ==
  flash' = [flash EXCEPT ![cell] = @ \cap byte]

WritePublic ==
  /\ macPc = "write_public"
  /\ Program(next, public[next])
  /\ next' = next + 1
  /\ macPc' = IF next = 5 THEN "static" ELSE macPc
  /\ UNCHANGED <<configured, macRead, random, public, static, announced, torn>>

(* The random static address: the low three bytes of the public one, two   *)
(* bytes of its own, and 0xC0.                                             *)
StaticAddress(hi) ==
  [i \in Address |-> IF i < 3 THEN public[i] ELSE IF i = 5 THEN RandomStatic ELSE hi[i - 3]]

ChooseStatic ==
  /\ macPc = "static"
  /\ IF HasStatic(macRead)
     THEN /\ static' = StaticAddress([i \in {0, 1} |-> macRead[6 + i]])
          /\ macPc' = "ready"
     ELSE /\ static' = StaticAddress([i \in {0, 1} |-> random[3 + i]])
          /\ macPc' = "write_static"
  /\ next' = 6
  /\ UNCHANGED <<configured, flash, macRead, random, public, announced, torn>>

WriteStaticFault ==          \* writes the bytes of the wrong end of the array
  /\ macPc = "write_static"
  /\ Program(next, static[next - 6])
  /\ next' = next + 1
  /\ macPc' = IF next = 7 THEN "ready" ELSE macPc
  /\ UNCHANGED <<configured, macRead, random, public, static, announced, torn>>

WriteStatic ==
  /\ macPc = "write_static"
  /\ Program(next, static[next - 3])
  /\ next' = next + 1
  /\ macPc' = IF next = 7 THEN "ready" ELSE macPc
  /\ UNCHANGED <<configured, macRead, random, public, static, announced, torn>>

(* The controller starts with the addresses.                               *)
Announce ==
  /\ macPc = "ready"
  /\ announced' = [public |-> public, static |-> static]
  /\ macPc' = "running"
  /\ UNCHANGED <<configured, flash, ramVars, torn>>

-----------------------------------------------------------------------------
(* The power fails: RAM is lost.  A cell being programmed keeps any of the *)
(* bits that were to be cleared.                                           *)
Writing == macPc \in {"write_public", "write_static"}
Target == IF macPc = "write_public" THEN public[next] ELSE static[next - 3]

PowerFails ==
  /\ macPc # "off"
  /\ IF Writing
     THEN \E kept \in SUBSET (flash[next] \ Target) :
            flash' = [flash EXCEPT ![next] = (@ \cap Target) \cup kept]
     ELSE UNCHANGED flash
  /\ torn' = (torn \/ macPc = "write_public")
  /\ macPc' = "off"
  /\ RamCleared
  /\ UNCHANGED <<configured, announced>>

MacNext ==
  \/ SkipUnconfigured
  \/ ReadAndChoose
  \/ WritePublic
  \/ ChooseStatic
  \/ WriteStatic
  \/ Announce
  \/ PowerFails

MacSpec == MacInit /\ [][MacNext]_macVars

-----------------------------------------------------------------------------
MacTypeOK ==
  /\ configured \in BOOLEAN /\ torn \in BOOLEAN
  /\ flash \in [Cells -> Bytes] /\ macRead \in [Cells -> Bytes]
  /\ macPc \in {"off", "write_public", "static", "write_static", "ready", "running"}
  /\ random \in [0 .. 4 -> Bytes]
  /\ public \in [Address -> Bytes] /\ static \in [Address -> Bytes]
  /\ next \in 0 .. 8
  /\ announced \in {None} \cup [public : [Address -> Bytes], static : [Address -> Bytes]]

(* A cell is programmed only while it is erased, so that what is read back *)
(* is what was written: also after any number of interrupted boots.        *)
ProgramsErasedCells ==
  [][\A i \in Cells : flash'[i] # flash[i] => flash[i] = Erased]_macVars

(* The addresses the controller starts with never change from one boot to  *)
(* the next, whenever the power fails.  The exception is a pair of random  *)
(* bytes 0xFFFF: written to flash it still reads as "not there".           *)
AddressesStable ==
  [][configured /\ announced # None =>
       /\ announced'.public = announced.public
       /\ \/ announced'.static = announced.static
          \/ announced.static[3] = Erased /\ announced.static[4] = Erased]_macVars

(* Whenever the power fails, neither the flash nor what was announced from *)
(* it is overwritten.                                                      *)
AddressesSafe == ProgramsErasedCells /\ AddressesStable

(* A public address made by the controller carries the company id, unless  *)
(* the power failed while it was being written: what such a write left is  *)
(* taken for an address by the next boot.                                  *)
CompanyIdPresent ==
  configured /\ ~torn /\ announced # None
    => \/ \A i \in 3 .. 5 : announced.public[i] = Company[i - 2]
       \/ \A i \in Address : announced.public[i] = Factory

(* Before the controller starts, both addresses are in flash: the next     *)
(* boot will find what this one uses.                                      *)
WrittenBeforeUse ==
  configured /\ macPc \in {"ready", "running"}
    => /\ \A i \in Address : flash[i] = public[i]
       /\ \A i \in 3 .. 4 : flash[i + 3] = static[i]

(* The addresses in use are the ones in flash, and made as they should be. *)
AddressesWritten == CompanyIdPresent /\ WrittenBeforeUse
=============================================================================
