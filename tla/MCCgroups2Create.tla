--------------------------- MODULE MCCgroups2Create ---------------------------
(* The two creator maps of create(), and flags built from a few known     *)
(* controller names, cgroups/all, one unknown name and one token of        *)
(* another isolator family; the cpu controller may fail to start.          *)
EXTENDS Cgroups2Create

MCCreators == {"core", "cpu", "mem", "perf_event", "io", "hugetlb",
               "cpuset", "pids"}
MCDeviceCreators == {"devices"}
MCCgroupsNames == {"cpu", "mem", "devices", "all", "bogus"}
MCOtherTokens == {"filesystem/linux"}
MCBreakable == {"cpu"}

=============================================================================
