-------------------- MODULE DistributedFileSystemService --------------------
(***************************************************************************)
(* The handlers of /ds3/: each request walks its path with calls of        *)
(* LocalFileSystem, one at a time, and ignores most of what they return.   *)
(* The begin, commit and rollback of a transaction are commented out in    *)
(* the code, so a request is as many changes of the image as its calls.    *)
(*                                                                         *)
(* The server handles one request at a time; req is the one it is in.      *)
(***************************************************************************)
EXTENDS LFSProperties

CONSTANT Paths     \* component lists requests come with

ASSUME DfsAssumption == Paths \subseteq Seq(AnyName)

VARIABLES
  req,      \* the request being handled
  reply     \* the last answer

dfsVars == <<vars, req, reply>>

NoReq   == [method |-> "none"]
NoReply == [method |-> "none", status |-> 0]

DfsInit == Init /\ req = NoReq /\ reply = NoReply

----------------------------------------------------------------------------
Last(s)  == s[Len(s)]
Front(s) == SubSeq(s, 1, Len(s) - 1)

\* Looking up the components one after another; a failed lookup is an inode
\* number like any other to the next one.
Walked(d, path) ==
  LET at[i \in 0 .. Len(path)] ==
        IF i = 0 THEN Root ELSE Lookup(d, at[i - 1], path[i])
  IN  at[Len(path)]

IsDir(i) == i \in Inodes /\ disk.inodes[i].type = Directory

\* A request that has not called LocalFileSystem yet, or is between calls.
Ready == req # NoReq /\ pc = "idle"

Answer(status) ==
  /\ reply' = [method |-> req.method, status |-> status, path |-> req.path]
  /\ req' = NoReq

\* The process ends without an answer; the next one has no request.
Die == req' = NoReq /\ reply' = NoReply

\* Mutants of Resume: the walk does not move; the result of the last call is
\* reported.
ResumeStays(r) ==
  IF r = Aborts THEN Die
  ELSE IF req.phase = "walk"
  THEN /\ req' = [req EXCEPT !.inode = r,
                             !.phase = IF Len(req.rest) = 1 THEN "store" ELSE "walk"]
       /\ UNCHANGED reply
  ELSE Answer(200)

ResumeReports(r) ==
  IF r = Aborts THEN Die
  ELSE IF req.phase = "walk"
  THEN /\ req' = [req EXCEPT !.inode = r, !.rest = Tail(@),
                             !.phase = IF Len(req.rest) = 1 THEN "store" ELSE "walk"]
       /\ UNCHANGED reply
  ELSE Answer(IF r < 0 THEN 409 ELSE 200)

\* The handler goes on when a call has returned r.
Resume(r) ==
  IF r = Aborts THEN Die
  ELSE IF req.phase = "walk"
  THEN /\ req' = [req EXCEPT !.inode = r, !.rest = Tail(@),
                             !.phase = IF Len(req.rest) = 1 THEN "store" ELSE "walk"]
       /\ UNCHANGED reply
  ELSE Answer(200)

\* A call that is refused returns at once, another one when its writes are done.
Called(ret) == IF pc' = "idle" THEN Resume(ret) ELSE UNCHANGED <<req, reply>>

CallCreate(p, type, n) ==
  Create(p, type, n) /\ Called(CreatePlan(disk, p, type, n).ret)

\* A step of the call that is running.
ReturnValue ==
  IF pc = "write" THEN (IF InLoop THEN -ENOTENOUGHSPACE ELSE Aborts) ELSE job.ret

CallRuns == (WriteSteps \/ Flush) /\ Called(ReturnValue)

----------------------------------------------------------------------------
\* A mutant of ListedAt: the last entry the size counts is left out.
ListedButLast(d, i) ==
  LET cells == Read(d, i, d.inodes[i].size - 1)
  IN  {e \in DOMAIN cells : cells[e].inum # 0}

\* get(): a read of the image, answered at once.
ListedAt(d, i) ==
  LET cells == Read(d, i, d.inodes[i].size)
  IN  {e \in DOMAIN cells : cells[e].inum # 0}

\* A line of a listing is a name and whether "/" follows it.
Line(d, i, e) ==
  LET c == Read(d, i, d.inodes[i].size)[e]
  IN  <<c.name, c.inum \in Inodes /\ d.inodes[c.inum].type = Directory>>

Get(path) ==
  /\ req = NoReq
  /\ reply' = LET i == Walked(disk, path) IN
       IF StatFails(i) THEN [method |-> "GET", status |-> 404, path |-> path]
       ELSE IF disk.inodes[i].type = RegularFile
       THEN [method |-> "GET", status |-> 200, path |-> path,
             body |-> Read(disk, i, disk.inodes[i].size)]
       ELSE [method |-> "GET", status |-> 200, path |-> path,
             lines |-> {Line(disk, i, e) : e \in ListedAt(disk, i)}]
  /\ UNCHANGED <<vars, req>>

\* put() and del() start with the last component of the path; taking it from
\* an empty list is undefined and ends the process.
Accept(method, path, text, size) ==
  /\ req = NoReq
  /\ IF path = <<>> THEN Die
     ELSE /\ req' = [method |-> method, path |-> path, rest |-> path,
                     inode |-> Root, phase |-> "walk", text |-> text, size |-> size,
                     before |-> disk]
          /\ reply' = NoReply
  /\ UNCHANGED vars

\* put(): a directory of the path is entered, or made if lookup fails.  stat
\* of an inode number out of range leaves the struct as it was, so its type is
\* anything.
PutDirectory ==
  /\ Ready /\ req.method = "PUT" /\ req.phase = "walk" /\ Len(req.rest) > 1
  /\ LET next == Lookup(disk, req.inode, Head(req.rest))
     IN  IF next < 0 THEN CallCreate(req.inode, Directory, Head(req.rest))
         ELSE /\ UNCHANGED vars
              /\ \/ ~IsDir(next) /\ Answer(409)
                 \/ (next \in Inodes => IsDir(next)) /\ Resume(next)

\* A mutant of PutFile: the file is looked for in the root.
PutFileInRoot ==
  /\ Ready /\ req.method = "PUT" /\ req.phase = "walk" /\ Len(req.rest) = 1
  /\ LET found == Lookup(disk, Root, Head(req.rest))
     IN  IF found < 0 THEN CallCreate(req.inode, RegularFile, Head(req.rest))
         ELSE UNCHANGED vars /\ Resume(found)

\* The file itself: found, or created; a failed create leaves a negative inode
\* number, which write then refuses.
PutFile ==
  /\ Ready /\ req.method = "PUT" /\ req.phase = "walk" /\ Len(req.rest) = 1
  /\ LET found == Lookup(disk, req.inode, Head(req.rest))
     IN  IF found < 0 THEN CallCreate(req.inode, RegularFile, Head(req.rest))
         ELSE UNCHANGED vars /\ Resume(found)

PutStore ==
  /\ Ready /\ req.phase = "store"
  /\ Write(req.inode, req.text, req.size)
  /\ Called(WriteError(disk, req.inode, req.size))

\* A mutant of Delete: a directory is taken away like a file.
DeleteAnything ==
  /\ Ready /\ req.method = "DELETE" /\ req.phase = "walk"
  /\ UNCHANGED vars
  /\ LET dir    == Walked(disk, Front(req.path))
         target == Lookup(disk, dir, Last(req.path))
     IN  IF dir < 0 \/ target < 0 THEN Answer(404)
         ELSE req' = [req EXCEPT !.phase = "remove", !.inode = dir] /\ UNCHANGED reply

\* del(): the walk changes nothing.  Every directory has a size above 0.
Delete ==
  /\ Ready /\ req.method = "DELETE" /\ req.phase = "walk"
  /\ UNCHANGED vars
  /\ LET dir    == Walked(disk, Front(req.path))
         target == Lookup(disk, dir, Last(req.path))
     IN  IF dir < 0 \/ target < 0 THEN Answer(404)
         ELSE \/ /\ target \in Inodes => IsDir(target) /\ disk.inodes[target].size > 0
                 /\ Answer(409)
              \/ /\ ~(IsDir(target) /\ disk.inodes[target].size > 0)
                 /\ req' = [req EXCEPT !.phase = "remove", !.inode = dir]
                 /\ UNCHANGED reply

Remove ==
  /\ Ready /\ req.phase = "remove"
  /\ \E plan \in UnlinkPlans(disk, req.inode, Last(req.path)) :
       UnlinkWith(req.inode, Last(req.path), plan) /\ Called(plan.ret)

----------------------------------------------------------------------------
HandlerSteps == PutDirectory \/ PutFile \/ PutStore \/ Delete \/ Remove \/ CallRuns

DfsNext ==
  \/ \E path \in Paths : Get(path)
  \/ \E path \in Paths, text \in FileCells, size \in Sizes : Accept("PUT", path, text, size)
  \/ \E path \in Paths : Accept("DELETE", path, ZeroCell, 0)
  \/ HandlerSteps

DfsSpec == DfsInit /\ [][DfsNext]_dfsVars

\* The one server thread keeps running the handler it is in.
DfsFairSpec == DfsSpec /\ WF_dfsVars(HandlerSteps)

----------------------------------------------------------------------------
\* The handlers use LocalFileSystem as ServerSpec assumes: a PUT writes only to
\* an inode that is allocated, although it does not look at what create returned.
KeepsServerSpec == ServerSpec

\* A path that leads on, and not back to directories that were there before.
Onward(path) == \A i \in DOMAIN path : path[i] # ".."

\* A request that is answered with 404 or 409 has not changed the image, even a
\* PUT that walked over directories it could have made: once put() has made one,
\* it is in directories of its own, and finds no file there to stumble over.
\* (With ".." in the path it can come back, and does leave what it has made.)
RefusedChangesNothing ==
  [][req # NoReq /\ reply' # reply /\ reply'.status \in {404, 409} /\ Onward(req.path)
       => disk' = req.before]_dfsVars

\* What a client finds under a path of names.
Found(d, path) ==
  LET i == Walked(d, path)
  IN  CASE i \notin Inodes -> [kind |-> "none"]
        [] i \in Inodes /\ d.inodes[i].type = Directory -> [kind |-> "dir", inode |-> i]
        [] i \in Inodes /\ d.inodes[i].type = RegularFile ->
             [kind |-> "file", inode |-> i, body |-> Read(d, i, d.inodes[i].size)]

\* Whatever becomes of a request, and at each of its block writes, every path but
\* the one it is about leads to what it led to before; only directories on the
\* way to the path of a PUT may be new.  So a request that is refused, or dies
\* in the middle, has done nothing to another file or directory either.
OtherPathsKept ==
  [][req # NoReq /\ Onward(req.path) =>
       \A path \in (Names \X Names) \cup {<<n>> : n \in Names} :
          path # req.path =>
            \/ Found(disk', path) = Found(req.before, path)
            \/ /\ req.method = "PUT" /\ (\E i \in DOMAIN req.path : path = SubSeq(req.path, 1, i))
               /\ Found(req.before, path).kind = "none"]_dfsVars

\* A DELETE that is answered with 200 has removed the path.
DeletedIsGone ==
  [][req # NoReq /\ reply' # reply /\ req.method = "DELETE" /\ reply'.status = 200
       => Walked(disk', req.path) < 0]_dfsVars

\* A PUT that is answered with 200 has stored the file.
StoredWhenOk ==
  [][req # NoReq /\ reply' # reply /\ req.method = "PUT" /\ reply'.status = 200
       => LET i == Walked(disk', req.path)
          IN  /\ i \in Inodes
              /\ disk'.inodes[i].type = RegularFile /\ disk'.inodes[i].size = req.size
              /\ Read(disk', i, req.size) = [e \in 0 .. req.size - 1 |-> req.text]]_dfsVars

\* A listing shows a name exactly if lookup finds it, and as a directory exactly
\* if it is one: get goes by the size of the directory, lookup by its blocks.
ListingAgrees ==
  [][reply' # reply /\ reply'.method = "GET" /\ "lines" \in DOMAIN reply' =>
       \A n \in Names :
         LET found == Lookup(disk, Walked(disk, reply'.path), n)
         IN  {line \in reply'.lines : line[1] = n}
               = IF found < 0 THEN {} ELSE {<<n, IsDir(found)>>}]_dfsVars

\* Every request is answered, or the server dies of it.
RequestsEnd == req # NoReq ~> req = NoReq
=============================================================================
