----------------------------------- MODULE Feed -----------------------------------
(***************************************************************************)
(* The robot's camera (Screens/PerseCtrl/Feed): one thread receives, one   *)
(* decodes frames into one of a few images, and the LVGL thread takes the  *)
(* latest image, copies it to the screen and frees it.  A frame that has   *)
(* been received is a number, its bytes are left out.                      *)
(***************************************************************************)
EXTENDS Naturals

CONSTANTS
  Images,    \* images in Feed::frameImgs
  MaxFrames  \* bound of the model: whole frames in rxBuf

ASSUME FeedAssumption == Images \in Nat \ {0} /\ MaxFrames \in Nat \ {0}

VARIABLES
  rxBuf, dataAvailable,   \* whole frames received; the decoder's semaphore
  freeImgs,               \* the images that are free
  freeImg,                \* the decoder: the image it fills, or None
  readyFrame,             \* readyFrame.imgIndex, or None
  frameIndex              \* the LVGL thread: the image it copies, or None

feedVars == <<rxBuf, dataAvailable, freeImgs, freeImg, readyFrame, frameIndex>>

Img  == 1..Images
None == 0

FeedTypeOK ==
  /\ rxBuf \in 0..MaxFrames /\ dataAvailable \in BOOLEAN
  /\ freeImgs \subseteq Img
  /\ freeImg \in Img \cup {None} /\ readyFrame \in Img \cup {None}
  /\ frameIndex \in Img \cup {None}

FeedInit ==
  /\ rxBuf = 0 /\ dataAvailable = FALSE /\ freeImgs = Img
  /\ freeImg = None /\ readyFrame = None /\ frameIndex = None

(* A packet may end any number of frames. *)
ReadLoop ==
  /\ rxBuf' \in rxBuf..MaxFrames /\ dataAvailable' = TRUE
  /\ UNCHANGED <<freeImgs, freeImg, readyFrame, frameIndex>>

(* One frame for one packet: without a frame, with one that is no picture, *)
(* and without a free image the decoder waits for the next packet.         *)
DecodeLoop ==
  /\ freeImg = None /\ dataAvailable /\ dataAvailable' = FALSE
  /\ rxBuf' = IF rxBuf = 0 THEN 0 ELSE rxBuf - 1
  /\ \/ UNCHANGED <<freeImgs, freeImg>>
     \/ /\ rxBuf > 0
        /\ \E i \in freeImgs :
             /\ \A j \in freeImgs : i =< j
             /\ freeImg' = i /\ freeImgs' = freeImgs \ {i}
  /\ UNCHANGED <<readyFrame, frameIndex>>

DecodeError ==
  /\ freeImg # None /\ freeImg' = None /\ freeImgs' = freeImgs \cup {freeImg}
  /\ UNCHANGED <<rxBuf, dataAvailable, readyFrame, frameIndex>>

(* mutant: the image that is copied is filled next *)
DecodeDone_Reuses ==
  /\ freeImg # None /\ freeImg' = None /\ readyFrame' = freeImg
  /\ freeImgs' = freeImgs \cup ({frameIndex} \ {None})
  /\ UNCHANGED <<rxBuf, dataAvailable, frameIndex>>

(* The frame is ready, in place of one nobody took. *)
DecodeDone ==
  /\ freeImg # None /\ freeImg' = None /\ readyFrame' = freeImg
  /\ UNCHANGED <<rxBuf, dataAvailable, freeImgs, frameIndex>>

(* nextFrame, until its callback, and from it on. *)
NextFrame ==
  /\ frameIndex = None /\ readyFrame # None
  /\ frameIndex' = readyFrame /\ readyFrame' = None
  /\ UNCHANGED <<rxBuf, dataAvailable, freeImgs, freeImg>>

(* mutant: an image is freed only while the decoder waits *)
FrameShown_Skips ==
  /\ frameIndex # None /\ frameIndex' = None
  /\ freeImgs' = IF freeImg = None THEN freeImgs \cup {frameIndex} ELSE freeImgs
  /\ UNCHANGED <<rxBuf, dataAvailable, freeImg, readyFrame>>

FrameShown ==
  /\ frameIndex # None /\ frameIndex' = None /\ freeImgs' = freeImgs \cup {frameIndex}
  /\ UNCHANGED <<rxBuf, dataAvailable, freeImg, readyFrame>>

(* The screen, when the connection or the camera goes. *)
ClearFrame ==
  /\ frameIndex = None /\ rxBuf' = 0 /\ readyFrame' = None
  /\ UNCHANGED <<dataAvailable, freeImgs, freeImg, frameIndex>>

FeedNext ==
  ReadLoop \/ DecodeLoop \/ DecodeError \/ DecodeDone \/ NextFrame \/ FrameShown \/ ClearFrame

FeedSpec == FeedInit /\ [][FeedNext]_feedVars

-----------------------------------------------------------------------------
(* No image is filled while it is copied or waits for that, and none is    *)
(* given to two of them: an image is in one pair of hands.                 *)
OneHand ==
  /\ {freeImg, readyFrame, frameIndex} \cap freeImgs = {}
  /\ freeImg # None => freeImg # readyFrame /\ freeImg # frameIndex
  /\ readyFrame # None => readyFrame # frameIndex

(* The images nobody has any more: the feed stands still when there is no  *)
(* other.                                                                  *)
Lost == Img \ (freeImgs \cup {freeImg, readyFrame, frameIndex})

(* An image is lost only when the frame that is ready in it is replaced,   *)
(* or cleared, before it was taken; never by an error or after it is       *)
(* shown.                                                                  *)
LostUntaken == [][\A i \in Lost' \ Lost : i = readyFrame]_feedVars

FeedInv == FeedTypeOK /\ OneHand
================================================================================
