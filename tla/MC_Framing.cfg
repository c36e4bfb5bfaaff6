CONSTANTS
    ByteBits = 2
    RequestSizes <- MC_RequestSizes
    ResponseSizes <- MC_ResponseSizes
    MaxFrames = 3
SPECIFICATION Spec
INVARIANT TypeOK HostDecodesResponses
PROPERTY CompleteFramesHandled
CHECK_DEADLOCK FALSE
