------------------------------ MODULE ProfileStore ------------------------------
(***************************************************************************)
(* ProfileDiskManager: profiles are files of a folder, which others can    *)
(* change as well.  The daemon can die, and files can be cut short, at any *)
(* time; clients are told of changes some time after they settled.         *)
(***************************************************************************)
EXTENDS ProfileData

CONSTANTS
    Names,      \* of profiles
    BaseName,   \* a name up to its first dot
    Builds,     \* builds of the daemon, with the CPU they run on
    Packets,    \* names of packets, by what a profile holds of them
    PacketOf,   \* a packet of that name, by build
    Garbled,    \* a packet no client has
    Current,    \* what the device reports, by build
    Cuts,       \* how many parts of a file can be there when it is cut short
    Nothing     \* no file, or no packet

VARIABLES
    code,       \* what the build makes of rows and packets; it never changes
    up,         \* the daemon runs
    path,       \* the manager has a folder
    folder,     \* the folder is there
    files,      \* its files, by name
    watched,    \* the folder is watched
    changed,    \* a change that was seen is not handled yet
    waiting,    \* fsWatcherEvtTimer runs
    told,       \* the list clients were given last; Nothing: none
    answer      \* to the last operation

vars == <<code, up, path, folder, files, watched, changed, waiting, told, answer>>

-------------------------------------------------------------------------------
\* Files: signature, version, hash of the device, checksum, data.  Data is the
\* row of values of a packet, here under the name of the packet, or such a row
\* that was damaged.

Signature == "PWTPF"
FileVersion == 1
DeviceHash == "this device"
Sha256(data) == <<"sha256", data>>

Whole(p) == <<"whole", p>>
Damaged(p) == <<"damaged", p>>

CreateProfile(p) == <<Signature, FileVersion, DeviceHash, Sha256(Whole(p)), Whole(p)>>

\* Files of other programs, of a later version, of another device, and damaged.
ForeignFiles ==
    LET p == CHOOSE q \in Packets : TRUE
    IN  {<<"other">>, [CreateProfile(p) EXCEPT ![2] = FileVersion + 1],
         [CreateProfile(p) EXCEPT ![3] = "another device"],
         [CreateProfile(p) EXCEPT ![5] = Damaged(p)]}

WholeFiles == {CreateProfile(p) : p \in Packets} \cup ForeignFiles

CutFile(f, k) == SubSeq(f, 1, IF k < Len(f) THEN k ELSE Len(f))

Files == WholeFiles \cup {CutFile(f, k) : f \in WholeFiles, k \in Cuts}

\* A part that is missing reads as empty, or 0.
Field(f, i, default) == IF i \in DOMAIN f THEN f[i] ELSE default

\* faulty variant: the checksum is not compared
IsValidUnsummed(f) ==
    /\ Field(f, 1, "") = Signature
    /\ Field(f, 2, 0) <= FileVersion
    /\ Field(f, 3, "") = DeviceHash
    /\ Field(f, 5, <<>>) # <<>>

\* getProfileData
IsValid(f) ==
    /\ Field(f, 1, "") = Signature
    /\ Field(f, 2, 0) <= FileVersion
    /\ Field(f, 3, "") = DeviceHash
    /\ Field(f, 4, <<>>) = Sha256(Field(f, 5, <<>>))
    /\ Field(f, 5, <<>>) # <<>>

ASSUME CutsAssumption == Cuts \subseteq Nat
ASSUME NothingAssumption == Nothing \notin Packets \cup Files

\* What a profile of the packet holds, and what is loaded to apply it.
Held(b, p) == Saved(PacketOf[b][p])

\* Packets of which profiles hold the same go by one name.
ASSUME PacketsAssumption ==
    \A b \in Builds :
        /\ IsPacket(b, Current[b])
        /\ \A p \in Packets : IsPacket(b, PacketOf[b][p])
        /\ \A p, q \in Packets : Held(b, p) = Held(b, q) => p = q

\* What the rows read as.
Read(b, data) ==
    LET row == Serialize(b, PacketOf[b][data[2]])
    IN  Deserialize(b, IF data[1] = "whole" THEN row ELSE Front(row))

Reading(b, data) ==
    LET same == {p \in Packets : Held(b, p) = Read(b, data)}
    IN  IF same = {} THEN Garbled ELSE CHOOSE p \in same : TRUE

Rows == {Whole(p) : p \in Packets} \cup {Damaged(p) : p \in Packets}

\* load for a DaemonPacket, over what the device has.
Shown(b, p) == Copy(Held(b, p), Current[b], Nothing)

Code(b) ==
    [build |-> b,
     reads |-> [data \in Rows |-> Reading(b, data)],
     shows |-> {p \in Packets : Shown(b, p) # Nothing}]

\* faulty variant: the name is cut as it is for the list
FilePathCut(n) == BaseName[n]

\* getFilePath, within the folder.
FilePath(n) == n

FileOf(n) == files[FilePath(n)]

Content(n) ==
    IF FileOf(n) # Nothing /\ IsValid(FileOf(n)) THEN code.reads[FileOf(n)[5]] ELSE Nothing

ProfilesIn(fs) == {n \in Names : fs[n] # Nothing}

\* faulty variant: whole names are listed
ListWholeNames == ProfilesIn(files)

\* getProfilesList: names up to their first dot, whatever load makes of them.
GetProfilesList == {BaseName[n] : n \in ProfilesIn(files)}

-------------------------------------------------------------------------------

Answer(op, ok, got) == [op |-> op, ok |-> ok, got |-> got]

NoAnswer == Answer("none", TRUE, Nothing)

\* No list of a daemon that was not asked yet.
Init ==
    /\ code \in {Code(b) : b \in Builds}
    /\ up = FALSE
    /\ path = FALSE
    /\ folder \in BOOLEAN
    /\ files \in [Names -> {Nothing} \cup WholeFiles]
    /\ folder \/ files = [n \in Names |-> Nothing]
    /\ watched = FALSE
    /\ changed = FALSE
    /\ waiting = FALSE
    /\ told = Nothing
    /\ answer = NoAnswer

\* The constructor.  Without a place for data, or where the folder cannot be
\* made, everything is refused from then on; inotify can have run out.
Start ==
    /\ ~up
    /\ up' = TRUE
    /\ \/ path' = TRUE /\ folder' = TRUE /\ watched' \in BOOLEAN
       \/ path' = FALSE /\ UNCHANGED folder /\ watched' = FALSE
    /\ answer' = NoAnswer
    /\ UNCHANGED <<code, files, changed, waiting, told>>

\* The watcher sees names come and go.
Seen(fs) == changed' = (changed \/ (watched /\ ProfilesIn(fs) # ProfilesIn(files)))

\* writeFile: done, or refused, or cut short.
WriteFile(n, f, ok) ==
    /\ \/ ok /\ folder /\ files' = [files EXCEPT ![FilePath(n)] = f]
       \/ ~ok /\ UNCHANGED files
       \/ /\ ~ok /\ folder
          /\ \E k \in Cuts \cup {Len(f)} : files' = [files EXCEPT ![FilePath(n)] = CutFile(f, k)]
    /\ Seen(files')

\* QFile::write of importProfile, into a buffer: what the disk does not take of
\* it when the file is closed goes unnoticed.
WriteBuffered(n, f, ok) ==
    \/ WriteFile(n, f, ok)
    \/ /\ ok /\ folder
       /\ \E k \in Cuts : files' = [files EXCEPT ![FilePath(n)] = CutFile(f, k)]
       /\ Seen(files')

Save(n, p, ok) ==
    /\ up
    /\ \/ path /\ WriteFile(n, CreateProfile(p), ok)
       \/ ~ok /\ UNCHANGED <<files, changed>>
    /\ answer' = Answer("save", ok, Nothing)
    /\ UNCHANGED <<code, up, path, folder, watched, waiting, told>>

Destroy(n, ok) ==
    /\ up
    /\ IF ok THEN /\ path /\ FileOf(n) # Nothing
                  /\ files' = [files EXCEPT ![FilePath(n)] = Nothing]
                  /\ Seen(files')
             ELSE UNCHANGED <<files, changed>>
    /\ answer' = Answer("destroy", ok, Nothing)
    /\ UNCHANGED <<code, up, path, folder, watched, waiting, told>>

\* load for a ClientPacket, to apply it.  A file may fail to open.
Load(n) ==
    /\ up
    /\ \/ path /\ Content(n) # Nothing /\ answer' = Answer("load", TRUE, Content(n))
       \/ answer' = Answer("load", FALSE, Nothing)
    /\ UNCHANGED <<code, up, path, folder, files, watched, changed, waiting, told>>

\* load for a DaemonPacket, to show it.
Show(n) ==
    /\ up
    /\ \/ /\ path /\ Content(n) \in code.shows
          /\ answer' = Answer("show", TRUE, Content(n))
       \/ answer' = Answer("show", FALSE, Nothing)
    /\ UNCHANGED <<code, up, path, folder, files, watched, changed, waiting, told>>

ListProfiles ==
    /\ up
    /\ told' = IF path THEN GetProfilesList ELSE {}
    /\ answer' = Answer("list", TRUE, Nothing)
    /\ UNCHANGED <<code, up, path, folder, files, watched, changed, waiting>>

\* Files are handed out as they are, all of them or one; a profile named "all"
\* cannot be asked for.
Exported(n) == path /\ FileOf(n) # Nothing

ExportProfiles(ns) ==
    /\ up
    /\ answer' = Answer("export", TRUE, {n \in ns : Exported(n)})
    /\ UNCHANGED <<code, up, path, folder, files, watched, changed, waiting, told>>

\* Only the signature is looked at: a profile that loads can be replaced by
\* one that does not.
ImportProfile(n, f, ok) ==
    /\ up
    /\ \/ path /\ Field(f, 1, "") = Signature /\ WriteBuffered(n, f, ok)
       \/ ~ok /\ UNCHANGED <<files, changed>>
    /\ answer' = Answer("import", ok, Nothing)
    /\ UNCHANGED <<code, up, path, folder, watched, waiting, told>>

OnDirChanged ==
    /\ up /\ changed
    /\ changed' = FALSE
    /\ waiting' = TRUE
    /\ answer' = NoAnswer
    /\ UNCHANGED <<code, up, path, folder, files, watched, told>>

\* faulty variant: an empty list is not worth a message
TimeoutUnlessEmpty ==
    /\ up /\ waiting
    /\ waiting' = FALSE
    /\ told' = IF GetProfilesList = {} THEN told ELSE GetProfilesList
    /\ answer' = NoAnswer
    /\ UNCHANGED <<code, up, path, folder, files, watched, changed>>

OnFsWatcherTimerTimeout ==
    /\ up /\ waiting
    /\ waiting' = FALSE
    /\ told' = GetProfilesList
    /\ answer' = NoAnswer
    /\ UNCHANGED <<code, up, path, folder, files, watched, changed>>

-------------------------------------------------------------------------------
\* The rest of the world.

\* The daemon ends, maybe while it saves; clients lose it.
Die ==
    /\ up
    /\ up' = FALSE
    /\ path' = FALSE
    /\ watched' = FALSE
    /\ changed' = FALSE
    /\ waiting' = FALSE
    /\ told' = Nothing
    /\ answer' = NoAnswer
    /\ \/ UNCHANGED files
       \/ \E n \in Names, p \in Packets, k \in Cuts :
            /\ path /\ folder
            /\ files' = [files EXCEPT ![FilePath(n)] = CutFile(CreateProfile(p), k)]
    /\ UNCHANGED <<code, folder>>

\* Others put files into the folder and delete them.
OthersChange(n, f) ==
    /\ folder
    /\ files' = [files EXCEPT ![n] = f]
    /\ Seen(files')
    /\ answer' = NoAnswer
    /\ UNCHANGED <<code, up, path, folder, watched, waiting, told>>

\* A folder that is gone is not watched any more, not even once it is back.
OthersRemoveFolder ==
    /\ folder
    /\ folder' = FALSE
    /\ files' = [n \in Names |-> Nothing]
    /\ changed' = (changed \/ watched)
    /\ watched' = FALSE
    /\ answer' = NoAnswer
    /\ UNCHANGED <<code, up, path, waiting, told>>

OthersMakeFolder ==
    /\ ~folder
    /\ folder' = TRUE
    /\ answer' = NoAnswer
    /\ UNCHANGED <<code, up, path, files, watched, changed, waiting, told>>

Next ==
    \/ Start
    \/ \E n \in Names, p \in Packets, ok \in BOOLEAN : Save(n, p, ok)
    \/ \E n \in Names, ok \in BOOLEAN : Destroy(n, ok)
    \/ \E n \in Names : Load(n)
    \/ \E n \in Names : Show(n)
    \/ ListProfiles
    \/ \E ns \in {{n} : n \in Names} \cup {Names} : ExportProfiles(ns)
    \/ \E n \in Names, f \in WholeFiles, ok \in BOOLEAN : ImportProfile(n, f, ok)
    \/ OnDirChanged
    \/ OnFsWatcherTimerTimeout
    \/ Die
    \/ \E n \in Names, f \in {Nothing} \cup WholeFiles : OthersChange(n, f)
    \/ OthersRemoveFolder
    \/ OthersMakeFolder

Spec == Init /\ [][Next]_vars

\* The event loop delivers what inotify saw, and timers fire.
FairSpec ==
    /\ Spec
    /\ WF_vars(OnDirChanged)
    /\ WF_vars(OnFsWatcherTimerTimeout)

-------------------------------------------------------------------------------

Operations == {"none", "save", "destroy", "load", "show", "list", "export", "import"}

TypeOK ==
    /\ code.build \in Builds
    /\ up \in BOOLEAN /\ path \in BOOLEAN /\ folder \in BOOLEAN
    /\ files \in [Names -> {Nothing} \cup Files]
    /\ watched \in BOOLEAN /\ changed \in BOOLEAN /\ waiting \in BOOLEAN
    /\ told \in {Nothing} \cup SUBSET {BaseName[n] : n \in Names}
    /\ answer.op \in Operations /\ answer.ok \in BOOLEAN
    /\ watched \/ changed \/ waiting => up /\ path
    /\ ~folder => ProfilesIn(files) = {} /\ ~watched

\* ProfileMap with what the files load as.
Stored == [n \in Names |-> Content(n)]

Map == INSTANCE ProfileMap WITH stored <- Stored

\* Through failed and broken writes, deaths and restarts, damaged files and
\* files of other devices and versions: what loads under a name is what was
\* saved or imported there, field by field, and nothing else.  It is not all of
\* the packet: the Curve Optimizer offset for all cores is not written
\* (UnsavedFields).  Who was told that a packet was saved finds it; who was told
\* that a file was imported may find nothing, as the disk may have been full
\* (getProfileData, createProfileFromPacket, getDiskData, importProfile).
KeepsProfiles == Map!Spec

\* A client that is shown a profile sees what applying it will ask for, of
\* every part, list and device the machine has, and the present values only of
\* devices the profile does not know and of what profiles do not hold: the
\* Curve Optimizer offset for all cores that it is shown is the one there is
\* now, for which applying the profile will not ask (load for a DaemonPacket
\* against load for a ClientPacket).
ShownIsApplied ==
    answer.op = "show" /\ answer.ok =>
        \A part \in ToSet(PartsOf(code.build)) :
            LET shown == Shown(code.build, answer.got)[part]
                loaded == Held(code.build, answer.got)[part]
                now == Current[code.build][part]
            IN  /\ SameSizes(loaded, now)
                /\ \A l \in ToSet(Lists) : shown[l] = loaded[l]
                /\ \A f \in DOMAIN shown.head \ (KeyedFields \cup UnsavedFields(part)) :
                      shown.head[f] = loaded.head[f]
                /\ \A f \in DOMAIN shown.head \cap KeyedFields :
                      \A k \in DOMAIN shown.head[f] :
                         shown.head[f][k] = IF k \in DOMAIN loaded.head[f]
                                            THEN loaded.head[f][k] ELSE now.head[f][k]
                /\ \A f \in UnsavedFields(part) : shown.head[f] = now.head[f]

\* A change is never forgotten between the watcher, the timer that lets the
\* folder settle, and the clients: while the folder is watched the list they
\* got last is the list of the profiles in it, or a change that was seen is
\* still to be handled (onDirChanged, onFsWatcherTimerTimeout).
NoChangeForgotten ==
    watched /\ told # Nothing => changed \/ waiting \/ told = GetProfilesList

\* Clients that were given a list are given a new one when profiles come and
\* go: once the folder stays as it is, the last list they got is the list of
\* the profiles in it, for as long as the folder is watched (onDirChanged,
\* onFsWatcherTimerTimeout).
ListReachesClients ==
    <>[][FALSE]_<<files, folder, up>> =>
        <>[](watched /\ told # Nothing => told = GetProfilesList)
===============================================================================
