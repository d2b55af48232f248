------------------------------ MODULE SceneCodec ------------------------------
(***************************************************************************)
(* The two formats of a snapshot (src/networking/sceneReplicator.cpp,      *)
(* lines 12 to 174).                                                       *)
(*                                                                         *)
(* A snapshot is a sequence of entity records.  In the binary format it is *)
(* a sequence of bytes; in JSON an opening brace and the document, which   *)
(* no cut or longer text parses as.                                        *)
(***************************************************************************)
EXTENDS ByteCodec

FormatVersion == 1

\* What reading a snapshot gives.
Malformed     == [ok |-> FALSE, records |-> <<>>]
Read(records) == [ok |-> TRUE, records |-> records]

HasRigidBody == 1
HasCollider  == 2
HasShape     == 4
HasExtra     == 8

Holds(mask, bit) == (mask \div bit) % 2 = 1

\* entityRecord, before anything is read into it.
EntityRecord ==
    [id |-> 0, mask |-> 0, transform |-> 0, rigidBody |-> 0, collider |-> 0,
     shapeSize |-> 0, shapeColor |-> 0, shapeTiled |-> 0, extra |-> <<>>]

Masks(bit) == {mask \in 0 .. (Base - 1) : Holds(mask, bit)}

\* The mask says which fields follow it.
EntityLayout ==
    << Field("id", Wide), Field("mask", Byte), Field("transform", Wide),
       FieldIf("mask", Masks(HasRigidBody), "rigidBody", Wide),
       FieldIf("mask", Masks(HasCollider), "collider", Wide),
       FieldIf("mask", Masks(HasShape), "shapeSize", Wide),
       FieldIf("mask", Masks(HasShape), "shapeColor", Wide),
       FieldIf("mask", Masks(HasShape), "shapeTiled", Byte),
       FieldIf("mask", Masks(HasExtra), "extra", Counted) >>

-----------------------------------------------------------------------------
WriteBinary(records) == PutScalar(FormatVersion, Byte) \o PutList(records, EntityLayout)

ReadBinary(snapshot) ==
    LET start   == Reader(snapshot, [version |-> 0, records |-> <<>>])
        version == GetFields(start, <<Field("version", Byte)>>)
    IN  Once(LAMBDA all : IF Whole(all) /\ all.got.version = FormatVersion
                          THEN Read(all.got.records) ELSE Malformed,
             GetList(version, "records", EntityLayout, EntityRecord))

-----------------------------------------------------------------------------
OpenBrace == 123

\* The keys of an entity's object.
RecordKeys(mask) == {f.name : f \in {g \in ToSet(EntityLayout) : There([mask |-> mask], g)}}

WriteJson(records) ==
    <<OpenBrace,
      [v |-> FormatVersion,
       e |-> [i \in DOMAIN records |-> Restrict(records[i], RecordKeys(records[i].mask))]]>>

\* at() and get() throw on what is missing.
ReadJson(snapshot) ==
    LET doc == snapshot[2]
    IN  IF Len(snapshot) # 2 \/ doc.v # FormatVersion THEN Malformed
        ELSE IF \E i \in DOMAIN doc.e :
                   \/ "mask" \notin DOMAIN doc.e[i]
                   \/ ~(RecordKeys(doc.e[i].mask) \subseteq DOMAIN doc.e[i])
                   \/ "extra" \in RecordKeys(doc.e[i].mask)
                      /\ \E k \in DOMAIN doc.e[i].extra : doc.e[i].extra[k] \notin 0..255
             THEN Malformed
        ELSE Read([i \in DOMAIN doc.e |->
                      [k \in DOMAIN EntityRecord |->
                          IF k \in RecordKeys(doc.e[i].mask) THEN doc.e[i][k]
                          ELSE EntityRecord[k]]])

-----------------------------------------------------------------------------
WriteSnapshot(format, records) ==
    IF format = "Json" THEN WriteJson(records) ELSE WriteBinary(records)

ReadSnapshot(snapshot) ==
    IF snapshot # <<>> /\ Head(snapshot) = OpenBrace THEN ReadJson(snapshot)
    ELSE ReadBinary(snapshot)
=============================================================================
