------------------------------- MODULE MCStartup -------------------------------
(* Pages 0 and 1 are 0x5000 and 0x9000, page 2 is 0x100000, page 8 lies past  *)
(* 1 GiB.  The words of a program header have four bits; the kernel is loaded *)
(* at 4 and linked at 10, so that both kinds of address can wrap around.  A   *)
(* page of the maps stands for 9 frames: the tasks need from 6 to 12, so that *)
(* a pool of one page may or may not be enough, and a program of 3 pages is   *)
(* too long.                                                                  *)
EXTENDS Startup

MCFirmwareAtStart == {{}, {1}, {5}}
MCLoaderPages == {4, 8}

Loads(offset, file, memory, physical, virtual, aligned) ==
    [offset |-> offset, file |-> file, memory |-> memory, physical |-> physical, virtual |-> virtual,
     aligned |-> aligned]
AsLinked(physical) == (physical + 6) % 16
Text == Loads(0, 2, 2, 4, 10, TRUE)
Odd == UNION {{Loads(offset, file, memory, physical, virtual, TRUE) :
                 offset \in {0, 2}, file \in {0, 2, 3}, memory \in {0, 2, 4, 15},
                 virtual \in {AsLinked(physical), 11, 15}} : physical \in {0, 3, 4, 6, 8, 15}}
       \union {Loads(0, 2, 2, 4, 10, FALSE)}
MCImages == [header : {TRUE}, entry : {10, 11, 12, 13},
             segments : {<<>>} \union {<<s>> : s \in Odd} \union {<<Text, s>> : s \in Odd}]
            \union {[header |-> FALSE, entry |-> 10, segments |-> <<Text>>]}

MCContents == {"junk", "QFS1", "QFS2", "FAT", "VFAT", "a"}
Holds(boot, volume) == [s \in Sectors |-> CASE s = "boot" -> boot [] s = "volume" -> volume [] s = "data" -> "a"]
MCSectors == {"boot", "volume", "data"}
MCVolumes == {Holds("junk", "QFS2"), Holds("FAT", "QFS1"), Holds("VFAT", "junk")}
MCLiveVolumes == {Holds("junk", "QFS2"), Holds("FAT", "junk")}
=============================================================================
