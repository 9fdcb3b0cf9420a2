\* Three runs of the uploader, and two of the script that copies a version.
SPECIFICATION BoxSpec
CONSTANTS
    uploader = uploader
    Uploader = {uploader}
    MaxUploads = 3
    MaxCopies = 2
    MaxFaults = 3
INVARIANTS BoxTypeOK ServedIsReleased
PROPERTIES ActiveStays CleanUploadPublishes CleanCopyServes
CHECK_DEADLOCK FALSE
