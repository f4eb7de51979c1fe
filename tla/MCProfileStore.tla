----------------------------- MODULE MCProfileStore -----------------------------
(* Instances of ProfileStore: builds for Linux and Windows, packets in which *)
(* no two values are the same.                                               *)
EXTENDS ProfileStore

MCNames == {"a", "a.b"}
MCBaseName == [n \in MCNames |-> "a"]

LinuxAMD == [os |-> "Linux", cpu |-> "AMD"]
WindowsIntel == [os |-> "Windows", cpu |-> "Intel"]

MCBuilds == {LinuxAMD, WindowsIntel}

\* Values of packet k; fields with an entry per device have those of ds.
Value(k, f, i) == <<k, f, i>>

Item(k, fields, i, ds) ==
    [f \in fields |-> IF f \in KeyedFields THEN [d \in ds |-> Value(k, f, d)] ELSE Value(k, f, i)]

APacket(b, k, cores, threads, ds) ==
    [part \in ToSet(PartsOf(b)) |->
        LET fields == Fields[part]
            list(l, n) == IF fields[l] = {} THEN <<>>
                          ELSE [i \in 1 .. n |-> Item(k, fields[l], i, ds)]
        IN  [head |-> Item(k, fields.head, 0, ds),
             coreData |-> list("coreData", cores), threadData |-> list("threadData", threads)]]

\* One for the machine as it is, with a device more and one less; one of a
\* machine with fewer threads.
MCPacketOf ==
    [b \in MCBuilds |-> [p \in {"full", "small"} |->
        IF p = "full" THEN APacket(b, 1, 1, 2, {1, 2})
                      ELSE APacket(b, 2, 1, 1, {1})]]

MCCurrent == [b \in MCBuilds |-> APacket(b, 3, 1, 2, {1, 3})]
===============================================================================
