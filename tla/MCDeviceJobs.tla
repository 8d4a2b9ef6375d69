---- MODULE MCDeviceJobs ----
(* A level 3 request, which has the Xe Link test on a PVC platform, and lists *)
(* of tests of other lengths, one of them with the all-to-all test.           *)
EXTENDS DeviceJobs

Specific(types) == [level |-> 0, types |-> types]

MCRequests == {[level |-> 3, types |-> << >>], Specific(<<"EXCLUSIVE">>),
               Specific(<<"SYSMAN">>), Specific(<<"LIGHT_CODEC", "ALL_TO_ALL">>)}
====
