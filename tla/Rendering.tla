----------------------------- MODULE Rendering -----------------------------
(***************************************************************************)
(* Turning a source file into the JPEGs and MP4s that are served           *)
(* (phone-sync-server/src/imaging.rs, transcode.rs, and render_derivatives *)
(* of publish.rs): one render of a thumbnail or a preview, or all the      *)
(* derivatives of an item that is published.                               *)
(*                                                                         *)
(* ffprobe and ffmpeg are external: a run works or fails, each time anew.  *)
(* A picture is what it shows and how it was turned; an MP4, whether it    *)
(* has sound.                                                              *)
(***************************************************************************)
EXTENDS BoxWalk

CONSTANT Files   \* what ffprobe would tell of a source, and what its streams show

\* struct StreamGroup and ProbeStream, by what the code reads of them; `shows'
\* is not in the probe's output.
Shows == {"photo", "tile", "gain", "preview", "frame", "sound"}
Streams == [codec : {"video", "audio"}, area : Nat, gray : BOOLEAN, shows : Shows]
Groups == [primary : BOOLEAN, tiles : Nat, sized : BOOLEAN, shows : Shows]
Sources == [media : {"photo", "video"}, groups : Seq(Groups), streams : Seq(Streams), height : Nat]

\* The group that find(default) takes, or the first one.
PrimaryGroup(f) ==
  LET marked == {i \in DOMAIN f.groups : f.groups[i].primary}
  IN IF marked = {} THEN 1 ELSE CHOOSE i \in marked : \A j \in marked : i <= j

\* tile_grid_filter finds a grid to stitch.
Stitchable(f) ==
  /\ f.groups # <<>>
  /\ f.groups[PrimaryGroup(f)].tiles > 0 /\ f.groups[PrimaryGroup(f)].sized

Videos(f) == {i \in DOMAIN f.streams : f.streams[i].codec = "video"}
Candidates(f) == {i \in Videos(f) : f.streams[i].area > 0 /\ ~f.streams[i].gray}
Largest(f) ==
  {i \in Candidates(f) : \A j \in Candidates(f) : f.streams[i].area >= f.streams[j].area}

ASSUME FilesAssumption ==
  \A f \in Files : /\ f.media \in {"photo", "video"} /\ f.height \in Nat
                   /\ f.groups \in Seq(Groups) /\ f.streams \in Seq(Streams)

ASSUME NoneAssumption == None \notin Nat

\* What the code goes by (imaging.rs:196-198): gain maps are gray, and where no
\* grid is stitched the photo is the largest of the streams that are not gray, a
\* washed-out preview among them being smaller; it may be any if all are gray.
ASSUME PhotosAssumption ==
  \A f \in Files : f.media = "photo" =>
     /\ \A i \in Candidates(f) : f.streams[i].shows # "gain"
     /\ ~Stitchable(f) =>
          \A i \in IF Candidates(f) = {} THEN Videos(f) ELSE Largest(f) :
             f.streams[i].shows = "photo"

VARIABLES
  job,          \* "none", "thumb" or "publish"
  step,         \* what is done next
  file,         \* the source
  image,        \* the image that is being rendered, "full", "grid" or "thumb"
  probed,       \* its ffprobe has worked
  pictures,     \* the JPEGs
  info,         \* probe_video's answer
  renditions,   \* the MP4s
  mishap        \* history: for which image, or for "info", which tool has failed

render == <<job, step, file, image, probed, pictures, info, renditions, mishap>>
vars == <<reader, render>>

NoInfo == [audio |-> FALSE, height |-> 0]
Images == {"thumb", "full", "grid"}
NoPicture == [shows |-> "nothing", turned |-> Upright]
Clip(audio) == IF audio THEN "sound" ELSE "silent"

RInit ==
  /\ Init
  /\ job = "none" /\ step = "idle" /\ file = None /\ image = "thumb" /\ probed = FALSE
  /\ pictures = [i \in Images |-> NoPicture]
  /\ info = NoInfo /\ renditions = [k \in {"v1080", "v540", "loop"} |-> "absent"]
  /\ mishap = {}

\* orientation::read, before the tools are run.
Read == job = "none" /\ Step /\ UNCHANGED render

\* A request, the backfill or a publish takes up a source that exists.
Begin(j, f) ==
  /\ level = "done" /\ job = "none"
  /\ job' = j /\ file' = f
  /\ step' = IF f.media = "video" THEN "seek" ELSE "probe"
  /\ image' = IF j = "thumb" THEN "thumb" ELSE "full"
  /\ UNCHANGED <<reader, probed, pictures, info, renditions, mishap>>

Fails == /\ step' = "failed"
         /\ UNCHANGED <<reader, job, file, image, probed, pictures, info, renditions>>

\* The image is done: a thumbnail is the answer; a publish goes on to the grid
\* image, and then to the files.
Picture(shows, turned) ==
  /\ pictures' = [pictures EXCEPT ![image] = [shows |-> shows, turned |-> turned]]
  /\ IF image = "full"
     THEN image' = "grid" /\ step' = IF file.media = "video" THEN "seek" ELSE "probe"
     ELSE image' = image /\ step' = IF image = "grid" THEN "derive" ELSE "done"
  /\ probed' = FALSE
  /\ UNCHANGED <<reader, job, file, info, renditions>>

Mishap(tool) == mishap' = mishap \cup {<<image, tool>>}

\* probe_file.
Probe ==
  /\ step = "probe"
  /\ \/ probed' = TRUE /\ UNCHANGED mishap
     \/ probed' = FALSE /\ Mishap("ffprobe")
  /\ step' = "stitch"
  /\ UNCHANGED <<reader, job, file, image, pictures, info, renditions>>

HasGrid == probed /\ Stitchable(file)

\* The first half of render_still: the stitched grid, cropped and turned.
Stitch ==
  /\ step = "stitch"
  /\ \/ HasGrid /\ Picture(file.groups[PrimaryGroup(file)].shows, orientation) /\ UNCHANGED mishap
     \/ /\ step' = "fallback"
        /\ IF HasGrid THEN Mishap("ffmpeg") ELSE UNCHANGED mishap
        /\ UNCHANGED <<reader, job, file, image, probed, pictures, info, renditions>>

MutAnyStream ==
  IF Videos(file) = {} THEN None
  ELSE CHOOSE i \in Videos(file) : \A j \in Videos(file) : i >= j

\* best_image_stream: the largest that is not gray, the last of the largest.
BestImageStream ==
  IF Largest(file) = {} THEN None
  ELSE CHOOSE i \in Largest(file) : \A j \in Largest(file) : i >= j

\* The second half: one stream, ffmpeg's own choice without a probe.
Fallback ==
  /\ step = "fallback"
  /\ \/ LET best == IF probed THEN BestImageStream ELSE None
        IN /\ \E i \in Videos(file) :
                /\ best \in {i, None}
                /\ Picture(file.streams[i].shows, orientation)
           /\ UNCHANGED mishap
     \/ Mishap("ffmpeg") /\ Fails

\* render_video_frame: a second in, or the first frame; ffmpeg turns it.
SeekFrame ==
  /\ step = "seek"
  /\ \/ Picture("frame", Upright) /\ UNCHANGED mishap
     \/ Mishap("ffmpeg") /\ Fails

\* The images are written and the full one is decoded for its size and colour.
Derive ==
  /\ step = "derive" /\ UNCHANGED mishap
  /\ \/ /\ step' = IF file.media = "video" THEN "info" ELSE "done"
        /\ UNCHANGED <<reader, job, file, image, probed, pictures, info, renditions>>
     \/ Fails

\* probe_video; on failure the publish goes on with VideoInfo::default().
ProbeVideo ==
  /\ step = "info"
  /\ \/ /\ info' = [audio |-> \E i \in DOMAIN file.streams : file.streams[i].codec = "audio",
                    height |-> file.height]
        /\ UNCHANGED mishap
     \/ info' = NoInfo /\ mishap' = mishap \cup {<<"info", "ffprobe">>}
  /\ step' = "v1080"
  /\ UNCHANGED <<reader, job, file, image, probed, pictures, renditions>>

Small == 540
MutSkipUnknown == info.height > Small

\* is_worth_producing, for the larger rendition; the smaller one always is.
LargeIsWorth == info.height = 0 \/ info.height > Small

\* transcode_rendition: ffmpeg works and leaves more than a kilobyte, or the
\* publish fails.
Transcode(k, next) ==
  \/ /\ renditions' = [renditions EXCEPT ![k] = Clip(info.audio)]
     /\ step' = next
     /\ UNCHANGED <<reader, job, file, image, probed, pictures, info, mishap>>
  \/ UNCHANGED mishap /\ Fails

TranscodeLarge ==
  /\ step = "v1080"
  /\ IF LargeIsWorth THEN Transcode("v1080", "v540")
     ELSE step' = "v540" /\ UNCHANGED <<reader, job, file, image, probed, pictures, info, renditions, mishap>>

TranscodeSmall == step = "v540" /\ Transcode("v540", "loop")

\* render_loop_clip: silent, and optional.
RenderLoop ==
  /\ step = "loop"
  /\ renditions' \in {renditions, [renditions EXCEPT !["loop"] = "silent"]}
  /\ step' = IF renditions["v540"] # "absent" \/ renditions["v1080"] # "absent" THEN "done" ELSE "failed"
  /\ UNCHANGED <<reader, job, file, image, probed, pictures, info, mishap>>

RNext ==
  \/ Read
  \/ \E j \in {"thumb", "publish"}, f \in Files : Begin(j, f)
  \/ Probe \/ Stitch \/ Fallback \/ SeekFrame \/ Derive \/ ProbeVideo
  \/ TranscodeLarge \/ TranscodeSmall \/ RenderLoop

RSpec == RInit /\ [][RNext]_vars

----------------------------------------------------------------------------
RTypeOK ==
  /\ WalkTypeOK
  /\ job \in {"none", "thumb", "publish"}
  /\ step \in {"idle", "probe", "stitch", "fallback", "seek", "derive", "info", "v1080", "v540", "loop",
               "done", "failed"}
  /\ file \in Files \cup {None}
  /\ image \in Images /\ probed \in BOOLEAN
  /\ DOMAIN pictures = Images
  /\ \A i \in Images : pictures[i].shows \in Shows \cup {"nothing"}
  /\ info \in [audio : BOOLEAN, height : Nat]
  /\ renditions \in [{"v1080", "v540", "loop"} -> {"absent", "silent", "sound"}]
  /\ mishap \subseteq (Images \cup {"info"}) \X {"ffprobe", "ffmpeg"}

\* The file tells its photo from its maps and previews: none of them is marked as
\* primary, and something is.
Marked(f) ==
  \A i \in DOMAIN f.groups : f.groups[i].shows # "photo" =>
     ~f.groups[i].primary /\ \E j \in DOMAIN f.groups : f.groups[j].primary

Failed(i) == \E m \in mishap : m[1] = i

\* A render is never the gain map of a photo ("ffmpeg's default stream pick lands
\* on the gain map", imaging.rs:8-12) unless ffprobe failed for it: not when the
\* stitch failed either.
NoGainMap ==
  \A i \in Images : pictures[i].shows = "gain" =>
     <<i, "ffprobe">> \in mishap \/ ~Marked(file) \/ Candidates(file) = {}

\* A photo is shown whole, turned as its file says, unless a tool failed for this
\* very image: a failed stitch falls back to one stream, a tile or the preview.
WholePhoto ==
  \A i \in Images : pictures[i].shows # "nothing" /\ file.media = "photo" =>
     /\ pictures[i].turned = orientation
     /\ ~Failed(i) /\ Marked(file) => pictures[i].shows = "photo"

\* The picture of a photo is of the photo, as it should be seen.
RightPicture == NoGainMap /\ WholePhoto

\* A published item can be played: a video has its small rendition, its large one
\* exactly if its source is larger than the small one or of unknown height, both
\* with sound if it has sound, unless the probe failed.
Playable ==
  step = "done" /\ job = "publish" =>
     /\ pictures["full"].shows # "nothing" /\ pictures["grid"].shows # "nothing"
     /\ file.media = "video" =>
          /\ renditions["v540"] # "absent"
          /\ Failed("info") => renditions["v1080"] # "absent"
          /\ ~Failed("info") =>
               /\ renditions["v1080"] # "absent" <=> file.height = 0 \/ file.height > Small
               /\ \A k \in {"v540", "v1080"} :
                    renditions[k] \in {"absent", Clip(\E i \in DOMAIN file.streams :
                                                     file.streams[i].codec = "audio")}
============================================================================
