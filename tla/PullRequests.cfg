\* Two nightly jobs and the one of the template, which builds twice.  The box has no
\* copies here: Boxes.cfg has them.
SPECIFICATION Spec
CONSTANTS
    nightly1 = nightly1
    nightly2 = nightly2
    template = template
    Nightly = {nightly1, nightly2}
    Template = template
    Uploader = {template}
    MaxAttempts = 3
    MaxUploads = 2
    MaxCopies = 0
    MaxFaults = 2
INVARIANTS TypeOK
PROPERTIES OwnChange SoundRunOpens BumpOutlivesFailedBuilds
