----------------------------- MODULE MCPipeline -----------------------------
(***************************************************************************)
(* A small instance of Pipeline: collections of two documents.  Every      *)
(* shape of document meets itself and a flat document, with object ids;    *)
(* keys of other types are tried on flat documents.                        *)
(***************************************************************************)
EXTENDS PipelineData

S(s) == [t |-> "String", s |-> s]
I(s) == [t |-> "Int32", s |-> s]
L(s) == [t |-> "Int64", s |-> s]
O(s) == [t |-> "ObjectId", s |-> s]
R(s) == [t |-> "Double", s |-> s]
N == [t |-> "Null", s |-> ""]
F(k, v) == [k |-> k, v |-> v]
Doc(fs) == [t |-> "Object", fs |-> fs]
Arr(es) == [t |-> "Array", es |-> es]
Point == Doc(<< F("type", S("Point")), F("coordinates", Arr(<< R("1.5"), R("2.5") >>)) >>)

Flat == << F("age", I("7")), F("name", S("ada")) >>

Shapes == {
    Flat,
    << F("age", L("8")), F("name", N) >>,
    << F("addr", Doc(<< F("city", S("oslo")), F("zip", I("1")) >>)) >>,
    << F("addr", Doc(<< F("city", S("rome")),
                        F("geo", Doc(<< F("zone", S("z")), F("name", S("n")) >>)) >>)) >>,
    << F("name", Doc(<< F("city", S("x")) >>)) >>,
    << F("name", S("bob")), F("tags", Arr(<< S("a"), S("b") >>)) >>,
    << F("items", Arr(<< Doc(<< F("qty", I("1")) >>) >>)), F("name", S("eve")) >>,
    << F("items", Arr(<< Doc(<< F("qty", I("1")) >>),
                         Doc(<< F("qty", I("2")), F("sku", S("s")) >>) >>)) >>,
    << F("am", Arr(<< Doc(<< F("qty", I("1")) >>) >>)), F("name", S("eve")),
       F("pm", Arr(<< Doc(<< F("qty", I("2")) >>) >>)) >>,
    << F("byday", Doc(<< F("0000000a", Doc(<< F("qty", I("1")) >>)),
                         F("0000000b", Doc(<< F("qty", I("2")) >>)) >>)) >>,
    << F("home", Doc(<< F("geo", Doc(<< F("zone", S("h")) >>)) >>)),
       F("work", Doc(<< F("geo", Doc(<< F("zone", S("w")) >>)) >>)) >>,
    << F("home", Doc(<< F("tags", Arr(<< Doc(<< F("qty", I("1")) >>) >>)), F("zip", I("4")) >>)),
       F("work", Doc(<< F("tags", Arr(<< Doc(<< F("qty", I("2")) >>) >>)), F("zip", I("5")) >>)) >>,
    << F("loc", Point) >>,
    << F("name", S("p")), F("place", Doc(<< F("info", Doc(<< F("city", S("c")) >>)),
                                            F("loc", Point) >>)) >>,
    << F("name", S("p")),
       F("rows", Arr(<< Doc(<< F("team", Doc(<< F("code", S("c")), F("name", S("d")) >>)) >>) >>)) >>,
    << F("userId", I("5")), F("flags", Arr(<< I("1") >>)) >> }

With(id, fs) == Doc(<< F("_id", id) >> \o fs)
Two(a, b, f, g) == << With(a, f), With(b, g) >>

McCollections ==
    { Two(O("a1"), O("b2"), f, f) : f \in Shapes }
    \cup { Two(O("a1"), O("b2"), f, Flat) : f \in Shapes }
    \cup { Two(O("a1"), O("b2"), Flat, f) : f \in Shapes }
    \cup { Two(I("9"), I("10"), Flat, Flat),
           Two(S("a1"), S("b2"), Flat, Flat), Two(I("9"), O("a1"), Flat, Flat) }

McNameOrder == << "_id", "0000000a", "0000000b", "addr", "age", "am", "byday", "city", "code",
                  "coordinates", "flags", "geo", "home", "info", "items", "loc", "name", "place",
                  "pm", "qty", "rows", "sku", "tags", "team", "type", "userId", "work", "zip", "zone" >>
McPgNames == [userId |-> "userid"] @@ ("0000000a" :> "_0000000a") @@ ("0000000b" :> "_0000000b")
McIdOrder == << I("9"), I("10"), S("a1"), S("b2"), O("a1"), O("b2"), O("c3") >>
McTextOrder == << "10", "9", "a1", "b2", "c3" >>
McNewId == O("c3")
=============================================================================
